---------------------------- MODULE Spec2Model ----------------------------
(***************************************************************************)
(* A model of the PixBin codec (Pixpipe/pixbincodec): PixBlockEncoder,     *)
(* PixBlockDecoder, PixBinEncoder and PixBinDecoder.                       *)
(*                                                                         *)
(* Buffers are sequences of bytes.  JavaScript values are records tagged   *)
(* by `kind`.  A JSON text is a sequence of 16-bit code units; one code    *)
(* unit stands for one JSON token (a punctuation mark, a literal, a string *)
(* of the string table, a number), which keeps buffers short while the     *)
(* layout (2 bytes per code unit, platform byte order) stays that of the   *)
(* serialisation the format description gives.                             *)
(***************************************************************************)
EXTENDS Integers, Sequences, FiniteSets, TLC

(***************************************************************************)
(* JavaScript values                                                       *)
(***************************************************************************)
Undefined == [kind |-> "undefined"]
Null      == [kind |-> "null"]
NaN       == [kind |-> "nan"]
Num(n)    == [kind |-> "number", n |-> n]
Str(s)    == [kind |-> "string", s |-> s]
Bool(b)   == [kind |-> "boolean", b |-> b]
Arr(items) == [kind |-> "array", items |-> items]
\* a plain object or class instance: its constructor name and its own
\* properties in insertion order
Obj(ctor, props) == [kind |-> "object", ctor |-> ctor, props |-> props]
Prop(k, v) == [k |-> k, v |-> v]
\* an object whose property graph contains a reference cycle
Cyclic    == [kind |-> "cyclic"]
\* a hexadecimal digest string (the result of md5), as its high and low
\* 16-bit halves
Hex(hi, lo) == [kind |-> "hex", hi |-> hi, lo |-> lo]
\* a typed array: a view of `length` elements at `byteOffset` of `buffer`
TypedArray(ctor, buffer, byteOffset, length) ==
    [kind |-> "typed", ctor |-> ctor, buffer |-> buffer,
     byteOffset |-> byteOffset, length |-> length]

\* what a call yields: a value, or an exception that escapes the call
Ret(v)    == [threw |-> FALSE, v |-> v]
Throw(e)  == [threw |-> TRUE, e |-> e]

TypedArrayCtors ==
    {"Int8Array", "Uint8Array", "Uint8ClampedArray", "Int16Array", "Uint16Array",
     "Int32Array", "Uint32Array", "Float32Array", "Float64Array"}

BYTES_PER_ELEMENT(ctor) ==
    CASE ctor \in {"Int8Array", "Uint8Array", "Uint8ClampedArray"} -> 1
      [] ctor \in {"Int16Array", "Uint16Array"} -> 2
      [] ctor \in {"Int32Array", "Uint32Array", "Float32Array"} -> 4
      [] ctor = "Float64Array" -> 8

\* the bytes a typed array views
ViewBytes(ta) ==
    SubSeq(ta.buffer, ta.byteOffset + 1,
           ta.byteOffset + ta.length * BYTES_PER_ELEMENT(ta.ctor))

\* typedArray.byteLength
TypedByteLength(ta) == ta.length * BYTES_PER_ELEMENT(ta.ctor)

\* a typed array that owns its whole buffer (new Ctor(arrayBuffer))
WholeTyped(ctor, bytes) ==
    TypedArray(ctor, bytes, 0, Len(bytes) \div BYTES_PER_ELEMENT(ctor))

\* JavaScript truthiness of the values the code tests
Truthy(v) ==
    CASE v.kind \in {"undefined", "null", "nan"} -> FALSE
      [] v.kind = "number" -> v.n # 0
      [] v.kind = "boolean" -> v.b
      [] v.kind = "string" -> v.s # ""
      [] OTHER -> TRUE


(***************************************************************************)
(* Bytes and buffers                                                       *)
(***************************************************************************)
\* an ArrayBuffer
Buf(bytes) == [kind |-> "buffer", bytes |-> bytes]

RECURSIVE Concat(_)
\* CodecUtils.mergeBuffers, on a list whose members all are buffers
Concat(seqs) ==
    IF seqs = <<>> THEN <<>> ELSE Head(seqs) \o Concat(Tail(seqs))

\* ArrayBuffer.prototype.slice(begin, end), both non-negative: clamped to the buffer
Slice(bytes, begin, end) ==
    LET b == IF begin > Len(bytes) THEN Len(bytes) ELSE begin
        e == IF end > Len(bytes) THEN Len(bytes) ELSE end
    IN  IF e <= b THEN <<>> ELSE SubSeq(bytes, b + 1, e)

\* the four bytes of a Uint32 in the given byte order
Uint32Bytes(n, littleEndian) ==
    LET b0 == n % 256
        b1 == (n \div 256) % 256
        b2 == (n \div 65536) % 256
        b3 == (n \div 16777216) % 256
    IN  IF littleEndian THEN <<b0, b1, b2, b3>> ELSE <<b3, b2, b1, b0>>

\* stands for every length of 2^30 and more: such a length is only ever
\* compared with the length of a buffer, which is far smaller
Huge == 1073741824

\* DataView.prototype.getUint32(byteOffset, littleEndian); the caller has
\* checked that the four bytes exist
GetUint32(bytes, byteOffset, littleEndian) ==
    LET a == bytes[byteOffset + 1]
        b == bytes[byteOffset + 2]
        c == bytes[byteOffset + 3]
        d == bytes[byteOffset + 4]
        hi == IF littleEndian THEN d ELSE a
        exact == IF littleEndian THEN a + 256 * b + 65536 * c + 16777216 * d
                 ELSE d + 256 * c + 65536 * b + 16777216 * a
    IN  IF hi >= 64 THEN Huge ELSE exact

(***************************************************************************)
(* Object serialisation (CodecUtils.objectToArrayBuffer and                *)
(* CodecUtils.ArrayBufferToObject): JSON text, two bytes per code unit,    *)
(* written through a Uint16Array, hence in platform byte order.            *)
(***************************************************************************)
\* the strings that occur in JSON texts; a string is the code unit
\* StrBase + (its index - 1)
StrTab ==
    << "byteStreamInfo", "originalBlockType", "metadataByteLength",
       "type", "signed", "bytesPerElements", "byteLength", "length",
       "isTypedArray", "compressedByteLength",
       "int", "float", "Object", "Array", "Number", "String",
       "date", "createdWith", "description", "userObject", "pixblocksInfo",
       "checksum", "pixbincodec_js", "2017-10-01T00:00:00.000Z",
       "unit", "mm", "name", "x", "Image2D", "scan" >>

StrBase == 256
NumBase == 1024
\* the code unit that opens a digest string; two code units follow
HexMark == 120
MaxCodeUnit == 65535

StrUnit(s) == StrBase + (CHOOSE i \in 1..Len(StrTab) : StrTab[i] = s) - 1
IsStrUnit(u) == u >= StrBase /\ u < StrBase + Len(StrTab)
IsNumUnit(u) == u >= NumBase /\ u <= MaxCodeUnit

RECURSIVE HasCycle(_)
\* whether JSON.stringify(v) throws (a cyclic structure)
HasCycle(v) ==
    CASE v.kind = "cyclic" -> TRUE
      [] v.kind = "array" -> \E i \in 1..Len(v.items) : HasCycle(v.items[i])
      [] v.kind = "object" -> \E i \in 1..Len(v.props) : HasCycle(v.props[i].v)
      [] OTHER -> FALSE

RECURSIVE Stringify(_), StringifyItems(_, _), StringifyProps(_, _)
\* JSON.stringify(v) for a v for which it returns a string
Stringify(v) ==
    CASE v.kind \in {"null", "nan", "undefined"} -> <<110>>
      [] v.kind = "boolean" -> IF v.b THEN <<116>> ELSE <<102>>
      [] v.kind = "number" -> <<NumBase + v.n>>
      [] v.kind = "string" -> <<StrUnit(v.s)>>
      [] v.kind = "hex" -> <<HexMark, v.hi, v.lo>>
      [] v.kind = "array" -> <<91>> \o StringifyItems(v.items, TRUE) \o <<93>>
      [] v.kind = "object" -> <<123>> \o StringifyProps(v.props, TRUE) \o <<125>>

StringifyItems(items, first) ==
    IF items = <<>> THEN <<>>
    ELSE (IF first THEN <<>> ELSE <<44>>) \o Stringify(Head(items))
         \o StringifyItems(Tail(items), FALSE)

\* a property whose value is undefined is left out
StringifyProps(props, first) ==
    IF props = <<>> THEN <<>>
    ELSE IF Head(props).v.kind = "undefined" THEN StringifyProps(Tail(props), first)
    ELSE (IF first THEN <<>> ELSE <<44>>)
         \o <<StrUnit(Head(props).k), 58>> \o Stringify(Head(props).v)
         \o StringifyProps(Tail(props), FALSE)

ParseFail == [ok |-> FALSE]
ParseOk(v, next) == [ok |-> TRUE, v |-> v, next |-> next]

RECURSIVE ParseValue(_, _), ParseItems(_, _, _), ParseProps(_, _, _)
\* JSON.parse, one value starting at code unit i of u
ParseValue(u, i) ==
    IF i > Len(u) THEN ParseFail
    ELSE CASE u[i] = 110 -> ParseOk(Null, i + 1)
           [] u[i] = 116 -> ParseOk(Bool(TRUE), i + 1)
           [] u[i] = 102 -> ParseOk(Bool(FALSE), i + 1)
           [] IsStrUnit(u[i]) -> ParseOk(Str(StrTab[u[i] - StrBase + 1]), i + 1)
           [] IsNumUnit(u[i]) -> ParseOk(Num(u[i] - NumBase), i + 1)
           [] u[i] = HexMark ->
                IF i + 2 > Len(u) THEN ParseFail
                ELSE ParseOk(Hex(u[i + 1], u[i + 2]), i + 3)
           [] u[i] = 91 ->
                IF i + 1 <= Len(u) /\ u[i + 1] = 93 THEN ParseOk(Arr(<<>>), i + 2)
                ELSE ParseItems(u, i + 1, <<>>)
           [] u[i] = 123 ->
                IF i + 1 <= Len(u) /\ u[i + 1] = 125
                THEN ParseOk(Obj("Object", <<>>), i + 2)
                ELSE ParseProps(u, i + 1, <<>>)
           [] OTHER -> ParseFail

\* the elements of an array, from element position i on
ParseItems(u, i, acc) ==
    LET After(r) ==
            IF ~r.ok \/ r.next > Len(u) THEN ParseFail
            ELSE IF u[r.next] = 93 THEN ParseOk(Arr(Append(acc, r.v)), r.next + 1)
            ELSE IF u[r.next] = 44 THEN ParseItems(u, r.next + 1, Append(acc, r.v))
            ELSE ParseFail
    IN  After(ParseValue(u, i))

\* the members of an object, from key position i on
ParseProps(u, i, acc) ==
    IF i + 1 > Len(u) \/ ~IsStrUnit(u[i]) \/ u[i + 1] # 58 THEN ParseFail
    ELSE LET Member(r, props) ==
                 IF ~r.ok \/ r.next > Len(u) THEN ParseFail
                 ELSE IF u[r.next] = 125
                      THEN ParseOk(Obj("Object", props), r.next + 1)
                 ELSE IF u[r.next] = 44 THEN ParseProps(u, r.next + 1, props)
                 ELSE ParseFail
             After(r) ==
                 Member(r, IF r.ok
                           THEN Append(acc, Prop(StrTab[u[i] - StrBase + 1], r.v))
                           ELSE acc)
         IN  After(ParseValue(u, i + 2))

\* JSON.parse(text): the whole text must be one value
Parse(u) ==
    LET Whole(r) == IF r.ok /\ r.next = Len(u) + 1 THEN r ELSE ParseFail
    IN  Whole(ParseValue(u, 1))

\* the bytes of a Uint16Array holding the code units
UnitsToBytes(u, littleEndian) ==
    [i \in 1..(2 * Len(u)) |->
        LET c == u[(i + 1) \div 2]
            low == (i % 2 = 1) = littleEndian
        IN  IF low THEN c % 256 ELSE c \div 256]

\* the code units of new Uint16Array(buffer), for a buffer of even length
BytesToUnits(bytes, littleEndian) ==
    [i \in 1..(Len(bytes) \div 2) |->
        IF littleEndian THEN bytes[2 * i - 1] + 256 * bytes[2 * i]
        ELSE bytes[2 * i] + 256 * bytes[2 * i - 1]]

\* CodecUtils.objectToArrayBuffer: the buffer, or null when the value has no
\* JSON text
objectToArrayBuffer(obj, littleEndian) ==
    IF obj.kind \in {"undefined", "cyclic"} THEN Null
    ELSE Buf(UnitsToBytes(Stringify(obj), littleEndian))

\* CodecUtils.ArrayBufferToObject: the value, or null when the bytes are no
\* JSON text (a buffer of odd length is no Uint16Array)
ArrayBufferToObject(bytes, littleEndian) ==
    LET Value(r) == IF r.ok THEN r.v ELSE Null
    IN  IF Len(bytes) % 2 # 0 THEN Null
        ELSE Value(Parse(BytesToUnits(bytes, littleEndian)))


(***************************************************************************)
(* Compression (pako.deflate, pako.inflate): a zlib stream holding one     *)
(* stored block: 2 header bytes, the block header (final-block flag, LEN,  *)
(* NLEN), the data, and the Adler-32 of the data.                          *)
(***************************************************************************)
RECURSIVE ByteSum(_, _, _), WeightedByteSum(_, _, _)
\* the sum of bytes[lo..hi], by halves
ByteSum(bytes, lo, hi) ==
    IF lo > hi THEN 0
    ELSE IF lo = hi THEN bytes[lo]
    ELSE ByteSum(bytes, lo, (lo + hi) \div 2)
         + ByteSum(bytes, (lo + hi) \div 2 + 1, hi)

\* the sum of (Len(bytes) - i + 1) * bytes[i] for i in lo..hi, by halves
WeightedByteSum(bytes, lo, hi) ==
    IF lo > hi THEN 0
    ELSE IF lo = hi THEN (Len(bytes) - lo + 1) * bytes[lo]
    ELSE WeightedByteSum(bytes, lo, (lo + hi) \div 2)
         + WeightedByteSum(bytes, (lo + hi) \div 2 + 1, hi)

\* the Adler-32 checksum, most significant byte first: a is 1 plus the sum
\* of the bytes, b the sum of the successive values of a
Adler32Bytes(bytes) ==
    LET Bytes4(a, b) == <<b \div 256, b % 256, a \div 256, a % 256>>
    IN  Bytes4((1 + ByteSum(bytes, 1, Len(bytes))) % 65521,
               (Len(bytes) + WeightedByteSum(bytes, 1, Len(bytes))) % 65521)

\* pako.deflate(bytes)
Deflate(bytes) ==
    LET n == Len(bytes)
    IN  <<120, 1, 1, n % 256, n \div 256, (65535 - n) % 256, (65535 - n) \div 256>>
        \o bytes \o Adler32Bytes(bytes)

\* pako.inflate(bytes): the inflated bytes, or an exception
Inflate(bytes) ==
    LET Stored(n, m, body) ==
            IF /\ bytes[1] = 120 /\ bytes[2] = 1 /\ bytes[3] = 1
               /\ n + m = 65535
               /\ Len(body) = n
               /\ SubSeq(bytes, Len(bytes) - 3, Len(bytes)) = Adler32Bytes(body)
            THEN Ret(body)
            ELSE Throw("inflate")
    IN  IF Len(bytes) < 11 THEN Throw("inflate")
        ELSE Stored(bytes[4] + 256 * bytes[5], bytes[6] + 256 * bytes[7],
                    SubSeq(bytes, 8, Len(bytes) - 4))

(***************************************************************************)
(* Objects and their properties                                            *)
(***************************************************************************)
\* the attribute is not present in the object ("k" in obj is false)
Absent == [kind |-> "absent"]

\* a candidate for encoding: an object of class ctor with (or without) the
\* attributes _data and _metadata
Container(ctor, data, metadata) ==
    [kind |-> "container", ctor |-> ctor, _data |-> data, _metadata |-> metadata]

HasProp(obj, k) == \E i \in 1..Len(obj.props) : obj.props[i].k = k

\* obj[k] of an object: the value of its last property named k, else undefined
GetProp(obj, k) ==
    IF HasProp(obj, k)
    THEN LET i == CHOOSE j \in 1..Len(obj.props) :
                     /\ obj.props[j].k = k
                     /\ \A l \in (j + 1)..Len(obj.props) : obj.props[l].k # k
         IN  obj.props[i].v
    ELSE Undefined

\* obj[k] = v: an existing property keeps its place, a new one comes last
SetProp(obj, k, v) ==
    IF HasProp(obj, k)
    THEN [obj EXCEPT !.props =
            [i \in 1..Len(obj.props) |->
                IF obj.props[i].k = k THEN Prop(k, v) ELSE obj.props[i]]]
    ELSE [obj EXCEPT !.props = Append(obj.props, Prop(k, v))]

\* value.constructor.name, for a value that has a constructor
ConstructorName(v) ==
    CASE v.kind \in {"object", "container", "typed"} -> v.ctor
      [] v.kind = "array" -> "Array"
      [] v.kind \in {"number", "nan"} -> "Number"
      [] v.kind \in {"string", "hex"} -> "String"
      [] v.kind = "boolean" -> "Boolean"
      [] v.kind = "cyclic" -> "Object"

\* CodecUtils.isTypedArray
isTypedArray(v) == v.kind = "typed"

\* CodecUtils.getTypedArrayInfo: element kind, sign flag, element width and
\* sizes of a typed array. The flag is true for the Uint arrays, which is
\* the convention PixBlockDecoder._getDataTypeFromByteStreamInfo reads.
getTypedArrayInfo(ta) ==
    Obj("Object",
        << Prop("type", Str(IF ta.ctor \in {"Float32Array", "Float64Array"}
                            THEN "float" ELSE "int")),
           Prop("signed", Bool(ta.ctor \in {"Uint8Array", "Uint8ClampedArray",
                                            "Uint16Array", "Uint32Array"})),
           Prop("bytesPerElements", Num(BYTES_PER_ELEMENT(ta.ctor))),
           Prop("byteLength", Num(TypedByteLength(ta))),
           Prop("length", Num(ta.length)) >>)

(***************************************************************************)
(* PixBlockEncoder                                                         *)
(***************************************************************************)
dataCases ==
    [invalid |-> Null, typedArray |-> Num(1), mixedArrays |-> Num(2),
     complexObject |-> Num(3)]

\* data instanceof Object
InstanceOfObject(data) == data.kind \in {"object", "array", "typed", "cyclic"}

\* a classification without the case of the arrays
determineDataCase_NoArrayCase(data) ==
    IF InstanceOfObject(data)
    THEN IF isTypedArray(data) THEN dataCases.typedArray
         ELSE dataCases.complexObject
    ELSE dataCases.invalid

\* PixBlockEncoder.determineDataCase
determineDataCase(data) ==
    IF InstanceOfObject(data)
    THEN IF isTypedArray(data) THEN dataCases.typedArray
         ELSE IF data.kind = "array" THEN dataCases.mixedArrays
         ELSE dataCases.complexObject
    ELSE dataCases.invalid

\* a validation that does not try to serialise the metadata
isGoodCandidate_NoCycleCheck(obj) ==
    IF obj.kind = "null" THEN Bool(FALSE)
    ELSE IF obj._metadata = Absent THEN Bool(FALSE)
    ELSE IF obj._data = Absent THEN Bool(FALSE)
    ELSE determineDataCase(obj._data)

\* PixBlockEncoder.isGoodCandidate: false, or the data case (null when the
\* data is invalid)
isGoodCandidate(obj) ==
    IF obj.kind = "null" THEN Bool(FALSE)
    ELSE IF obj._metadata = Absent THEN Bool(FALSE)
    ELSE IF obj._data = Absent THEN Bool(FALSE)
    ELSE IF HasCycle(obj._metadata) THEN Bool(FALSE)
    ELSE determineDataCase(obj._data)

\* new PixBlockEncoder()
NewBlockEncoder ==
    [_compress |-> FALSE, _input |-> Null, _inputCase |-> Null, _output |-> Null]

\* PixBlockEncoder.setInput
BlockEncoder_setInput(enc, obj) ==
    LET Set(inputCase) ==
            [enc EXCEPT !._inputCase = inputCase,
                        !._input = IF Truthy(inputCase) THEN obj ELSE @]
    IN  Set(isGoodCandidate(obj))

\* PixBlockEncoder._getDataSubsetInfo; subset is neither null nor undefined
getDataSubsetInfo(subset) ==
    IF isTypedArray(subset)
    THEN SetProp(getTypedArrayInfo(subset), "isTypedArray", Bool(TRUE))
    ELSE Obj("Object",
             << Prop("type", Str(ConstructorName(subset))),
                Prop("compressedByteLength", Null),
                Prop("length", Null),
                Prop("isTypedArray", Bool(FALSE)) >>)


\* One stream as PixBlockEncoder.run prepares it: its byteStreamInfo entry
\* and the value whose .buffer is handed to mergeBuffers (undefined when
\* that value has no .buffer).

\* case typedArray (the whole underlying buffer is deflated or written)
TypedArrayStream(data, compress) ==
    LET Compressed(info, c) ==
            [info |-> SetProp(info, "compressedByteLength", Num(Len(c))),
             pushed |-> Buf(c)]
        Stream(info) ==
            IF compress THEN Compressed(info, Deflate(data.buffer))
            ELSE [info |-> info, pushed |-> Buf(data.buffer)]
    IN  Stream(SetProp(getDataSubsetInfo(data), "compressedByteLength", Null))

\* one stream of a sequence as the format describes it: the stream of an
\* element that is no typed array is the serialisation of the element
MixedArraysStream_PushSerialized(dataSubset, compress, littleEndian) ==
    LET Compressed(info, c) ==
            [info |-> SetProp(info, "compressedByteLength", Num(Len(c))),
             pushed |-> Buf(c)]
        Serialized(info, bytes) ==
            IF compress
            THEN Compressed(SetProp(info, "length", Num(Len(bytes))), Deflate(bytes))
            ELSE [info |-> SetProp(info, "length", Num(Len(bytes))),
                  pushed |-> Buf(bytes)]
        Stream(info) ==
            IF Truthy(GetProp(info, "isTypedArray"))
            THEN IF compress THEN Compressed(info, Deflate(dataSubset.buffer))
                 ELSE [info |-> info, pushed |-> Buf(dataSubset.buffer)]
            ELSE Serialized(info, objectToArrayBuffer(dataSubset, littleEndian).bytes)
    IN  Stream(getDataSubsetInfo(dataSubset))

\* case mixedArrays, one element: the local dataSubset is replaced by its
\* serialisation, but without compression the buffer pushed is
\* data[i].buffer, that of the element itself
MixedArraysStream(dataSubset, compress, littleEndian) ==
    LET Compressed(info, c) ==
            [info |-> SetProp(info, "compressedByteLength", Num(Len(c))),
             pushed |-> Buf(c)]
        Serialized(info, bytes) ==
            IF compress
            THEN Compressed(SetProp(info, "length", Num(Len(bytes))), Deflate(bytes))
            ELSE [info |-> SetProp(info, "length", Num(Len(bytes))),
                  pushed |-> Undefined]
        Stream(info) ==
            IF Truthy(GetProp(info, "isTypedArray"))
            THEN IF compress THEN Compressed(info, Deflate(dataSubset.buffer))
                 ELSE [info |-> info, pushed |-> Buf(dataSubset.buffer)]
            ELSE Serialized(info, objectToArrayBuffer(dataSubset, littleEndian).bytes)
    IN  Stream(getDataSubsetInfo(dataSubset))

\* case complexObject
ComplexObjectStream(data, compress, littleEndian) ==
    LET Compressed(info, c) ==
            [info |-> SetProp(info, "compressedByteLength", Num(Len(c))),
             pushed |-> Buf(c)]
        Stream(info, bytes) ==
            IF compress THEN Compressed(info, Deflate(bytes))
            ELSE [info |-> info, pushed |-> Buf(bytes)]
        Serialized(bytes) ==
            Stream(SetProp(getDataSubsetInfo(data), "length", Num(Len(bytes))), bytes)
    IN  Serialized(objectToArrayBuffer(data, littleEndian).bytes)

\* the streams of the input, in order
EncoderStreams(data, inputCase, compress, littleEndian) ==
    CASE inputCase = dataCases.typedArray -> <<TypedArrayStream(data, compress)>>
      [] inputCase = dataCases.mixedArrays ->
           [i \in 1..Len(data.items) |->
               MixedArraysStream(data.items[i], compress, littleEndian)]
      [] inputCase = dataCases.complexObject ->
           <<ComplexObjectStream(data, compress, littleEndian)>>

\* the block header of PixBlockEncoder.run
PixBlockHeader(streams, input, metadataBytes) ==
    Obj("Object",
        << Prop("byteStreamInfo", Arr([i \in 1..Len(streams) |-> streams[i].info])),
           Prop("originalBlockType", Str(ConstructorName(input))),
           Prop("metadataByteLength", Num(Len(metadataBytes))) >>)

\* a list of buffers in which the metadata is deflated
BlockBuffers_DeflatedMetadata(streams, input, littleEndian) ==
    LET Buffers(headerBytes, metadataBytes) ==
            << <<IF littleEndian THEN 1 ELSE 0>>,
               Uint32Bytes(Len(headerBytes), littleEndian),
               headerBytes,
               Deflate(metadataBytes) >>
            \o [i \in 1..Len(streams) |-> streams[i].pushed.bytes]
        Header(metadataBytes) ==
            Buffers(objectToArrayBuffer(PixBlockHeader(streams, input, metadataBytes),
                                        littleEndian).bytes,
                    metadataBytes)
    IN  Header(objectToArrayBuffer(input._metadata, littleEndian).bytes)

\* a list of buffers in which the streams come last stream first
BlockBuffers_StreamsReversed(streams, input, littleEndian) ==
    LET Buffers(headerBytes, metadataBytes) ==
            << <<IF littleEndian THEN 1 ELSE 0>>,
               Uint32Bytes(Len(headerBytes), littleEndian),
               headerBytes,
               metadataBytes >>
            \o [i \in 1..Len(streams) |->
                   streams[Len(streams) + 1 - i].pushed.bytes]
        Header(metadataBytes) ==
            Buffers(objectToArrayBuffer(PixBlockHeader(streams, input, metadataBytes),
                                        littleEndian).bytes,
                    metadataBytes)
    IN  Header(objectToArrayBuffer(input._metadata, littleEndian).bytes)

\* the list of buffers PixBlockEncoder.run merges: primer, header, metadata,
\* then one buffer per stream
BlockBuffers(streams, input, littleEndian) ==
    LET Buffers(headerBytes, metadataBytes) ==
            << <<IF littleEndian THEN 1 ELSE 0>>,
               Uint32Bytes(Len(headerBytes), littleEndian),
               headerBytes,
               metadataBytes >>
            \o [i \in 1..Len(streams) |-> streams[i].pushed.bytes]
        Header(metadataBytes) ==
            Buffers(objectToArrayBuffer(PixBlockHeader(streams, input, metadataBytes),
                                        littleEndian).bytes,
                    metadataBytes)
    IN  Header(objectToArrayBuffer(input._metadata, littleEndian).bytes)

\* whether PixBlockEncoder.run throws on an accepted input: a null or
\* undefined element of a sequence has no constructor, metadata without a
\* JSON text gives no buffer, and mergeBuffers reads .byteLength of every
\* member of the list
EncoderThrows(input, inputCase, streams, littleEndian) ==
    \/ /\ inputCase = dataCases.mixedArrays
       /\ \E i \in 1..Len(input._data.items) :
             input._data.items[i].kind \in {"null", "undefined"}
    \/ objectToArrayBuffer(input._metadata, littleEndian) = Null
    \/ \E i \in 1..Len(streams) : streams[i].pushed = Undefined

\* PixBlockEncoder.run: what it leaves in _output, and whether it threw
PixBlockEncoder_run(enc, littleEndian) ==
    LET Merge(streams) ==
            IF EncoderThrows(enc._input, enc._inputCase, streams, littleEndian)
            THEN [threw |-> TRUE, ran |-> FALSE, _output |-> enc._output]
            ELSE [threw |-> FALSE, ran |-> TRUE,
                  _output |-> Buf(Concat(BlockBuffers(streams, enc._input,
                                                      littleEndian)))]
    IN  IF enc._input = Null \/ ~Truthy(enc._inputCase)
        THEN [threw |-> FALSE, ran |-> FALSE, _output |-> enc._output]
        ELSE Merge(EncoderStreams(enc._input._data, enc._inputCase, enc._compress,
                                  littleEndian))

\* a run that leaves the bytes it wrote in place of the data of its input
BlockEncoder_ran_DataReplaced(enc, r) ==
    [enc EXCEPT !._output = r._output,
                !._input = IF r.ran THEN [@ EXCEPT !._data = r._output] ELSE @]

\* the encoder after PixBlockEncoder.run, r being what the run did: run
\* assigns this._output and its local variables (data, dataSubset), and
\* only reads the container
BlockEncoder_ran(enc, r) == [enc EXCEPT !._output = r._output]

(***************************************************************************)
(* JavaScript arithmetic on the values a parsed header can hold            *)
(***************************************************************************)
\* ToNumber; strings and objects are not numerals here and give NaN
ToNumber(v) ==
    CASE v.kind = "number" -> v
      [] v.kind = "null" -> Num(0)
      [] v.kind = "boolean" -> Num(IF v.b THEN 1 ELSE 0)
      [] OTHER -> NaN

\* a + b on numbers
JSPlus(a, b) ==
    LET Sum(x, y) == IF x = NaN \/ y = NaN THEN NaN ELSE Num(x.n + y.n)
    IN  Sum(ToNumber(a), ToNumber(b))

\* ToInteger / ToIndex of a non-negative number: NaN is 0
ToIndex(v) ==
    LET Index(n) == IF n = NaN THEN 0 ELSE n.n
    IN  Index(ToNumber(v))

\* value[k] for any value: a TypeError on null and undefined, undefined on
\* the primitives, the length of an array
Get(v, k) ==
    CASE v.kind \in {"null", "undefined"} -> Throw("TypeError")
      [] v.kind = "object" -> Ret(GetProp(v, k))
      [] v.kind = "array" /\ k = "length" -> Ret(Num(Len(v.items)))
      [] OTHER -> Ret(Undefined)

(***************************************************************************)
(* PixBlockDecoder                                                         *)
(***************************************************************************)
\* new PixBlockDecoder()
NewBlockDecoder == [_input |-> Null, _output |-> Null]

\* new Ctor(arrayBuffer): the length must be a multiple of the element size
NewTyped(ctor, bytes) ==
    IF Len(bytes) % BYTES_PER_ELEMENT(ctor) # 0 THEN Throw("RangeError")
    ELSE Ret(WholeTyped(ctor, bytes))

\* CodecUtils.extractTypedArray(buffer, byteOffset, arrayType, numberOfElements):
\* a copy of the elements, null or undefined when the request does not fit;
\* arrayType is the name of a typed array constructor, or undefined
extractTypedArray(bytes, byteOffset, arrayType, numberOfElements) ==
    LET Extract(off, n) ==
            IF numberOfElements = Num(0) THEN Ret(Null)
            ELSE IF off # NaN /\ off.n >= Len(bytes) THEN Ret(Null)
            ELSE IF arrayType = Undefined THEN Throw("TypeError")
            ELSE IF off # NaN /\ n # NaN
                    /\ BYTES_PER_ELEMENT(arrayType.s) * n.n + off.n > Len(bytes)
                 THEN Ret(Undefined)
            ELSE IF off = NaN \/ n = NaN THEN NewTyped(arrayType.s, <<>>)
            ELSE NewTyped(arrayType.s,
                          Slice(bytes, off.n,
                                off.n + n.n * BYTES_PER_ELEMENT(arrayType.s)))
    IN  Extract(ToNumber(byteOffset), ToNumber(numberOfElements))

getDataTypeFromByteStreamInfo_SignedIsInt(bsi) ==
    LET Sized(prefix, bits) ==
            CASE bits = 8 -> prefix \o "8Array"
              [] bits = 16 -> prefix \o "16Array"
              [] bits = 32 -> prefix \o "32Array"
              [] bits = 64 -> prefix \o "64Array"
              [] OTHER -> "none"
        Bits(n) == IF n = NaN THEN 0 ELSE 8 * n.n
        DataType(type, signed, bits) ==
            IF type = Str("int")
            THEN Sized(IF Truthy(signed) THEN "Int" ELSE "Uint", bits)
            ELSE IF type = Str("float") THEN Sized("Float", bits)
            ELSE "Object"
        Global(dataType) ==
            IF dataType \in TypedArrayCtors \cup {"Object"} THEN Str(dataType)
            ELSE Undefined
    IN  Global(DataType(Get(bsi, "type").v, Get(bsi, "signed").v,
                        Bits(ToNumber(Get(bsi, "bytesPerElements").v))))

\* PixBlockDecoder._getDataTypeFromByteStreamInfo: the name of the global
\* constructor, undefined when no global has that name; bsi is not null
getDataTypeFromByteStreamInfo(bsi) ==
    LET Sized(prefix, bits) ==
            CASE bits = 8 -> prefix \o "8Array"
              [] bits = 16 -> prefix \o "16Array"
              [] bits = 32 -> prefix \o "32Array"
              [] bits = 64 -> prefix \o "64Array"
              [] OTHER -> "none"
        Bits(n) == IF n = NaN THEN 0 ELSE 8 * n.n
        DataType(type, signed, bits) ==
            IF type = Str("int")
            THEN Sized(IF Truthy(signed) THEN "Uint" ELSE "Int", bits)
            ELSE IF type = Str("float") THEN Sized("Float", bits)
            ELSE "Object"
        Global(dataType) ==
            IF dataType \in TypedArrayCtors \cup {"Object"} THEN Str(dataType)
            ELSE Undefined
    IN  Global(DataType(Get(bsi, "type").v, Get(bsi, "signed").v,
                        Bits(ToNumber(Get(bsi, "bytesPerElements").v))))


\* new Uint8Array(input, byteOffset, length): the bytes viewed, or a
\* RangeError when the view does not fit the buffer
Uint8View(bytes, byteOffset, length) ==
    LET View(off, n) ==
            IF off + n > Len(bytes) THEN Throw("RangeError")
            ELSE Ret(SubSeq(bytes, off + 1, off + n))
    IN  View(ToIndex(byteOffset), ToIndex(length))

\* the compressed branch of the stream loop of PixBlockDecoder.run
CompressedStream(bytes, bsi, readingByteOffset, littleEndian) ==
    LET Typed(ctor, inflatedBytes) ==
            IF ctor = Undefined THEN Throw("TypeError")
            ELSE IF ctor = Str("Object") THEN Ret(Buf(inflatedBytes))
            ELSE NewTyped(ctor.s, inflatedBytes)
        Stream(inflated) ==
            IF inflated.threw THEN inflated
            ELSE IF Truthy(Get(bsi, "isTypedArray").v)
            THEN Typed(getDataTypeFromByteStreamInfo(bsi), inflated.v)
            ELSE Ret(ArrayBufferToObject(inflated.v, littleEndian))
        Inflated(view) == IF view.threw THEN view ELSE Stream(Inflate(view.v))
    IN  Inflated(Uint8View(bytes, readingByteOffset,
                           Get(bsi, "compressedByteLength").v))

\* the uncompressed branch of the stream loop of PixBlockDecoder.run
RawStream(bytes, bsi, readingByteOffset, littleEndian) ==
    LET Object(objectBuffer) ==
            IF objectBuffer.threw THEN objectBuffer
            ELSE IF objectBuffer.v.kind # "typed" THEN Throw("TypeError")
            ELSE Ret(ArrayBufferToObject(objectBuffer.v.buffer, littleEndian))
        Stream(ctor) ==
            IF ctor = Str("Object")
            THEN Object(extractTypedArray(bytes, readingByteOffset,
                                          Str("Uint8Array"), Get(bsi, "length").v))
            ELSE extractTypedArray(bytes, readingByteOffset, ctor,
                                   Get(bsi, "length").v)
    IN  Stream(getDataTypeFromByteStreamInfo(bsi))

RECURSIVE DecodeStreams_OffsetByLength(_, _, _, _, _, _)
DecodeStreams_OffsetByLength(bytes, infos, i, readingByteOffset, dataStreams, littleEndian) ==
    LET Pushed(r) ==
            IF r.threw THEN r
            ELSE DecodeStreams_OffsetByLength(bytes, infos, i + 1,
                     JSPlus(readingByteOffset, Get(infos[i], "length").v),
                     Append(dataStreams, r.v), littleEndian)
        Stream(compressed) ==
            IF compressed
            THEN CompressedStream(bytes, infos[i], readingByteOffset, littleEndian)
            ELSE RawStream(bytes, infos[i], readingByteOffset, littleEndian)
    IN  IF i > Len(infos) THEN Ret(dataStreams)
        ELSE IF infos[i].kind \in {"null", "undefined"} THEN Throw("TypeError")
        ELSE Pushed(Stream(Truthy(Get(infos[i], "compressedByteLength").v)))

RECURSIVE DecodeStreams(_, _, _, _, _, _)
\* the stream loop of PixBlockDecoder.run from stream i on: the decoded
\* streams, or the exception that ends the loop
DecodeStreams(bytes, infos, i, readingByteOffset, dataStreams, littleEndian) ==
    LET Pushed(r, advance) ==
            IF r.threw THEN r
            ELSE DecodeStreams(bytes, infos, i + 1,
                               JSPlus(readingByteOffset, Get(infos[i], advance).v),
                               Append(dataStreams, r.v), littleEndian)
        Stream(compressed) ==
            IF compressed
            THEN Pushed(CompressedStream(bytes, infos[i], readingByteOffset,
                                         littleEndian),
                        "compressedByteLength")
            ELSE Pushed(RawStream(bytes, infos[i], readingByteOffset, littleEndian),
                        "byteLength")
    IN  IF i > Len(infos) THEN Ret(dataStreams)
        ELSE IF infos[i].kind \in {"null", "undefined"} THEN Throw("TypeError")
        ELSE Stream(Truthy(Get(infos[i], "compressedByteLength").v))

RECURSIVE ReadingOffsets(_, _, _)
\* the values of readingByteOffset at which the stream loop of
\* PixBlockDecoder.run takes the streams from stream i on, when no stream
\* throws; the entries of byteStreamInfo are objects
ReadingOffsets(infos, i, readingByteOffset) ==
    IF i > Len(infos) THEN <<>>
    ELSE <<readingByteOffset>>
         \o ReadingOffsets(infos, i + 1,
                JSPlus(readingByteOffset,
                       Get(infos[i],
                           IF Truthy(Get(infos[i], "compressedByteLength").v)
                           THEN "compressedByteLength" ELSE "byteLength").v))

\* the object PixBlockDecoder.run leaves in _output
Decoded(originalBlockType, data, metadata) ==
    [kind |-> "decoded", originalBlockType |-> originalBlockType,
     _data |-> data, _metadata |-> metadata]

\* a run that always returns the sequence of the streams
DecodeBlock_NoUnwrap(input, littleEndian) ==
    LET Output(pixBlockHeader, metadataObject, dataStreams) ==
            IF dataStreams.threw THEN dataStreams
            ELSE Ret(Decoded(Get(pixBlockHeader, "originalBlockType").v,
                             Arr(dataStreams.v),
                             metadataObject))
        Streams(bytes, pixBlockHeader, metadataObject, byteStreamInfo,
                readingByteOffset) ==
            IF Get(byteStreamInfo, "length").threw THEN Throw("TypeError")
            ELSE Output(pixBlockHeader, metadataObject,
                        DecodeStreams(bytes,
                                      IF byteStreamInfo.kind = "array"
                                      THEN byteStreamInfo.items ELSE <<>>,
                                      1, readingByteOffset, <<>>, littleEndian))
        Metadata(bytes, pixBlockHeader, begin, end) ==
            Streams(bytes, pixBlockHeader,
                    ArrayBufferToObject(Slice(bytes, begin, ToIndex(end)),
                                        littleEndian),
                    Get(pixBlockHeader, "byteStreamInfo").v, end)
        Header(bytes, pixBlockHeader, begin) ==
            IF Get(pixBlockHeader, "metadataByteLength").threw
            THEN Throw("TypeError")
            ELSE Metadata(bytes, pixBlockHeader, begin,
                          JSPlus(Num(begin),
                                 Get(pixBlockHeader, "metadataByteLength").v))
        Primer(bytes, headerLength) ==
            Header(bytes,
                   ArrayBufferToObject(Slice(bytes, 5, 5 + headerLength),
                                       littleEndian),
                   5 + headerLength)
    IN  IF input = Null THEN Throw("TypeError")
        ELSE IF Len(input.bytes) < 5 THEN Throw("RangeError")
        ELSE Primer(input.bytes, GetUint32(input.bytes, 1, TRUE))

\* PixBlockDecoder.run on the buffer in _input (null when none was set):
\* the decoded object, or the exception that escapes. The header length is
\* read with getUint32(1, readingByteOffset), readingByteOffset being 1.
DecodeBlock(input, littleEndian) ==
    LET Output(pixBlockHeader, metadataObject, dataStreams) ==
            IF dataStreams.threw THEN dataStreams
            ELSE Ret(Decoded(Get(pixBlockHeader, "originalBlockType").v,
                             IF Len(dataStreams.v) = 1 THEN dataStreams.v[1]
                             ELSE Arr(dataStreams.v),
                             metadataObject))
        Streams(bytes, pixBlockHeader, metadataObject, byteStreamInfo,
                readingByteOffset) ==
            IF Get(byteStreamInfo, "length").threw THEN Throw("TypeError")
            ELSE Output(pixBlockHeader, metadataObject,
                        DecodeStreams(bytes,
                                      IF byteStreamInfo.kind = "array"
                                      THEN byteStreamInfo.items ELSE <<>>,
                                      1, readingByteOffset, <<>>, littleEndian))
        Metadata(bytes, pixBlockHeader, begin, end) ==
            Streams(bytes, pixBlockHeader,
                    ArrayBufferToObject(Slice(bytes, begin, ToIndex(end)),
                                        littleEndian),
                    Get(pixBlockHeader, "byteStreamInfo").v, end)
        Header(bytes, pixBlockHeader, begin) ==
            IF Get(pixBlockHeader, "metadataByteLength").threw
            THEN Throw("TypeError")
            ELSE Metadata(bytes, pixBlockHeader, begin,
                          JSPlus(Num(begin),
                                 Get(pixBlockHeader, "metadataByteLength").v))
        Primer(bytes, headerLength) ==
            Header(bytes,
                   ArrayBufferToObject(Slice(bytes, 5, 5 + headerLength),
                                       littleEndian),
                   5 + headerLength)
    IN  IF input = Null THEN Throw("TypeError")
        ELSE IF Len(input.bytes) < 5 THEN Throw("RangeError")
        ELSE Primer(input.bytes, GetUint32(input.bytes, 1, TRUE))


(***************************************************************************)
(* md5 (js-md5): a digest of the bytes and their positions.  Two buffers   *)
(* that differ in one byte, or of which one is the other without its last  *)
(* byte, have different digests, as with MD5 in practice.                  *)
(***************************************************************************)
Md5Modulus == 1000003

RECURSIVE Md5Sum(_, _, _)
\* the sum of i * (bytes[i] + 1) for i in lo..hi, by halves
Md5Sum(bytes, lo, hi) ==
    IF lo > hi THEN 0
    ELSE IF lo = hi THEN (lo * (bytes[lo] + 1)) % Md5Modulus
    ELSE (Md5Sum(bytes, lo, (lo + hi) \div 2)
          + Md5Sum(bytes, (lo + hi) \div 2 + 1, hi)) % Md5Modulus

\* md5(buffer): the hexadecimal digest string
md5(bytes) ==
    LET Digest(d) == Hex(d \div 65536, d % 65536)
    IN  Digest(Md5Sum(bytes, 1, Len(bytes)))

(***************************************************************************)
(* PixBinEncoder                                                           *)
(***************************************************************************)
\* PixBinEncoder.MAGIC_NUMBER(), "PIXPIPE_PIXBIN", as character codes
MAGIC_NUMBER == <<80, 73, 88, 80, 73, 80, 69, 95, 80, 73, 88, 66, 73, 78>>

\* the default options of PixBinEncoder.reset
DefaultOptions ==
    Obj("Object", << Prop("madeWith", Str("pixbincodec_js")),
                     Prop("userObject", Null),
                     Prop("description", Null) >>)

\* new PixBinEncoder()
NewBinEncoder ==
    [_compress |-> TRUE, _inputs |-> <<>>, _output |-> Null,
     _options |-> DefaultOptions]

\* PixBinEncoder.reset: _compress is kept
BinEncoder_reset(enc) ==
    [enc EXCEPT !._inputs = <<>>, !._output = Null, !._options = DefaultOptions]

\* PixBinEncoder.setOption
BinEncoder_setOption(enc, optionName, value) ==
    IF HasProp(enc._options, optionName)
    THEN [enc EXCEPT !._options = SetProp(@, optionName, value)]
    ELSE enc

\* an addInput that takes every object
BinEncoder_addInput_PushAlways(enc, obj) ==
    [enc EXCEPT !._inputs = Append(@, obj)]

\* PixBinEncoder.addInput
BinEncoder_addInput(enc, obj) ==
    IF Truthy(isGoodCandidate(obj))
    THEN [enc EXCEPT !._inputs = Append(@, obj)]
    ELSE enc

\* the entry PixBinEncoder.run adds to the index for an encoded input; the
\* metadata of the input is an object
PixBinIndexEntry(input, encodedBlock) ==
    Obj("Object",
        << Prop("type", Str(ConstructorName(input))),
           Prop("description",
                IF HasProp(input._metadata, "description")
                THEN GetProp(input._metadata, "description") ELSE Null),
           Prop("byteLength", Num(Len(encodedBlock))),
           Prop("checksum", md5(encodedBlock)) >>)

RECURSIVE EncodeInputs(_, _, _, _, _, _)
\* the forEach of PixBinEncoder.run from input i on, with the one block
\* encoder it uses for all inputs: the index entries and the blocks, or the
\* exception that escapes
EncodeInputs(inputs, i, compress, blockEnc, acc, littleEndian) ==
    LET Pushed(enc) ==
            IF enc._output = Null
            THEN EncodeInputs(inputs, i + 1, compress, enc, acc, littleEndian)
            ELSE IF inputs[i]._metadata.kind \notin {"object", "array"}
            THEN Throw("TypeError")
            ELSE EncodeInputs(inputs, i + 1, compress, enc,
                     [pixblocksInfo |->
                          Append(acc.pixblocksInfo,
                                 PixBinIndexEntry(inputs[i], enc._output.bytes)),
                      pixBlocks |-> Append(acc.pixBlocks, enc._output.bytes)],
                     littleEndian)
        Ran(enc, r) ==
            IF r.threw THEN Throw("TypeError")
            ELSE Pushed(BlockEncoder_ran(enc, r))
        Set(enc) == Ran(enc, PixBlockEncoder_run(enc, littleEndian))
    IN  IF i > Len(inputs) THEN Ret(acc)
        ELSE Set([BlockEncoder_setInput(blockEnc, inputs[i])
                      EXCEPT !._compress = compress])

\* the JSON description at the beginning of a PixBin
PixBinIndex(options, pixblocksInfo) ==
    Obj("Object",
        << Prop("date", Str("2017-10-01T00:00:00.000Z")),
           Prop("createdWith", GetProp(options, "madeWith")),
           Prop("description", GetProp(options, "description")),
           Prop("userObject", GetProp(options, "userObject")),
           Prop("pixblocksInfo", Arr(pixblocksInfo)) >>)

\* an archive with one byte of padding between the index and the blocks
PixBinBuffers_Padded(options, encoded, littleEndian) ==
    LET Buffers(pixBinIndexBinaryString) ==
            << MAGIC_NUMBER,
               <<IF littleEndian THEN 1 ELSE 0>>,
               Uint32Bytes(Len(pixBinIndexBinaryString), littleEndian),
               pixBinIndexBinaryString,
               <<0>> >>
            \o encoded.pixBlocks
    IN  Buffers(objectToArrayBuffer(PixBinIndex(options, encoded.pixblocksInfo),
                                    littleEndian).bytes)

\* the archive PixBinEncoder.run builds of the index entries and the blocks
PixBinBuffers(options, encoded, littleEndian) ==
    LET Buffers(pixBinIndexBinaryString) ==
            << MAGIC_NUMBER,
               <<IF littleEndian THEN 1 ELSE 0>>,
               Uint32Bytes(Len(pixBinIndexBinaryString), littleEndian),
               pixBinIndexBinaryString >>
            \o encoded.pixBlocks
    IN  Buffers(objectToArrayBuffer(PixBinIndex(options, encoded.pixblocksInfo),
                                    littleEndian).bytes)

\* PixBinEncoder.run: what it leaves in _output, and whether it threw
PixBinEncoder_run(enc, littleEndian) ==
    LET Merge(encoded) ==
            IF encoded.threw
            THEN [threw |-> TRUE, ran |-> FALSE, _output |-> enc._output]
            ELSE [threw |-> FALSE, ran |-> TRUE,
                  _output |-> Buf(Concat(PixBinBuffers(enc._options, encoded.v,
                                                       littleEndian)))]
    IN  IF Len(enc._inputs) = 0
        THEN [threw |-> FALSE, ran |-> FALSE, _output |-> enc._output]
        ELSE Merge(EncodeInputs(enc._inputs, 1, enc._compress, NewBlockEncoder,
                                [pixblocksInfo |-> <<>>, pixBlocks |-> <<>>],
                                littleEndian))

\* the encoder after PixBinEncoder.run, r being what the run did: run
\* assigns this._output and reads this._inputs and this._options
BinEncoder_ran(enc, r) == [enc EXCEPT !._output = r._output]

(***************************************************************************)
(* PixBinDecoder                                                           *)
(***************************************************************************)
\* new PixBinDecoder()
NewBinDecoder == [_verifyChecksum |-> FALSE, _input |-> Null, _output |-> Null]

\* a reset that keeps the output
BinDecoder_reset_KeepOutput(dec) == [dec EXCEPT !._input = Null]

\* PixBinDecoder.reset: _verifyChecksum is kept
BinDecoder_reset(dec) == [dec EXCEPT !._input = Null, !._output = Null]

\* a console.warn of PixBinDecoder.run: what it is about, and the unit (0
\* when it is about the buffer)
Warn(what, i) == [what |-> what, i |-> i]

\* what a run of the decoding loop has done so far: the blocks decoded, the
\* warnings given and the units handed to the block decoder
Progress(blocks, warned, decoded) ==
    [blocks |-> blocks, warned |-> warned, decoded |-> decoded]

\* the result of the loop: it ended, or an exception escaped it
LoopDone(progress) == [threw |-> FALSE, progress |-> progress]
LoopThrew(progress) == [threw |-> TRUE, progress |-> progress]

RECURSIVE DecodeBlocks_NoVerification(_, _, _, _, _, _, _)
\* a loop without the verification of the checksum
DecodeBlocks_NoVerification(bytes, infos, i, movingByteOffset, verifyChecksum, progress, littleEndian) ==
    LET Pushed(decodedBlock, end, handed) ==
            IF decodedBlock.threw THEN LoopThrew(handed)
            ELSE DecodeBlocks_NoVerification(bytes, infos, i + 1, end,
                     verifyChecksum,
                     [handed EXCEPT !.blocks = Append(@, decodedBlock.v)],
                     littleEndian)
        Block(pixBlock, end) ==
            Pushed(DecodeBlock(Buf(pixBlock), littleEndian), end,
                     [progress EXCEPT !.decoded = Append(@, i)])
        Sliced(end) ==
            Block(Slice(bytes, ToIndex(movingByteOffset), ToIndex(end)), end)
        Info(byteLength) ==
            IF byteLength.threw THEN LoopThrew(progress)
            ELSE Sliced(JSPlus(movingByteOffset, byteLength.v))
    IN  IF i > Len(infos) THEN LoopDone(progress)
        ELSE Info(Get(infos[i], "byteLength"))

RECURSIVE DecodeBlocks(_, _, _, _, _, _, _)
\* the loop of PixBinDecoder.run from block i on, with the one block decoder
\* it uses for all blocks; an exception of the block decoder escapes
DecodeBlocks(bytes, infos, i, movingByteOffset, verifyChecksum, progress, littleEndian) ==
    LET Pushed(decodedBlock, end, handed) ==
            IF decodedBlock.threw THEN LoopThrew(handed)
            ELSE DecodeBlocks(bytes, infos, i + 1, end, verifyChecksum,
                     [handed EXCEPT !.blocks = Append(@, decodedBlock.v)],
                     littleEndian)
        Block(pixBlock, end) ==
            IF verifyChecksum /\ md5(pixBlock) # Get(infos[i], "checksum").v
            THEN DecodeBlocks(bytes, infos, i + 1, end, verifyChecksum,
                     [progress EXCEPT !.warned = Append(@, Warn("checksum", i))],
                     littleEndian)
            ELSE Pushed(DecodeBlock(Buf(pixBlock), littleEndian), end,
                          [progress EXCEPT !.decoded = Append(@, i)])
        Sliced(end) ==
            Block(Slice(bytes, ToIndex(movingByteOffset), ToIndex(end)), end)
        Info(byteLength) ==
            IF byteLength.threw THEN LoopThrew(progress)
            ELSE Sliced(JSPlus(movingByteOffset, byteLength.v))
    IN  IF i > Len(infos) THEN LoopDone(progress)
        ELSE Info(Get(infos[i], "byteLength"))

\* the object PixBinDecoder.run leaves in _output
BinOutput(meta, blocks) == [kind |-> "pixbin", meta |-> meta, blocks |-> blocks]

\* what a call of PixBinDecoder.run does: whether an exception escaped,
\* the _output it leaves, the warnings it gave, the units it handed to the
\* block decoder
RunResult(threw, output, warned, decoded) ==
    [threw |-> threw, _output |-> output, warned |-> warned, decoded |-> decoded]

\* a run without the control of the magic number
PixBinDecoder_run_NoMagicControl(dec, littleEndian) ==
    LET Output(pixBinIndexObj, loop) ==
            IF loop.threw
            THEN RunResult(TRUE, dec._output, loop.progress.warned,
                           loop.progress.decoded)
            ELSE RunResult(FALSE, BinOutput(pixBinIndexObj, loop.progress.blocks),
                           loop.progress.warned, loop.progress.decoded)
        Blocks(bytes, pixBinIndexObj, pixblocksInfo, movingByteOffset) ==
            IF pixblocksInfo.threw THEN RunResult(TRUE, dec._output, <<>>, <<>>)
            ELSE IF Get(pixblocksInfo.v, "length").threw
            THEN RunResult(TRUE, dec._output, <<>>, <<>>)
            ELSE Output(pixBinIndexObj,
                        DecodeBlocks(bytes,
                                     IF pixblocksInfo.v.kind = "array"
                                     THEN pixblocksInfo.v.items ELSE <<>>,
                                     1, Num(movingByteOffset), dec._verifyChecksum,
                                     Progress(<<>>, <<>>, <<>>), littleEndian))
        Index(bytes, pixBinIndexObj, movingByteOffset) ==
            Blocks(bytes, pixBinIndexObj, Get(pixBinIndexObj, "pixblocksInfo"),
                   movingByteOffset)
        Primer(bytes, n, len) ==
            Index(bytes,
                  ArrayBufferToObject(Slice(bytes, n + 5, n + 5 + len), littleEndian),
                  n + 5 + len)
        Control(bytes, n) ==
            IF Len(bytes) < n + 5
            THEN RunResult(FALSE, dec._output, <<Warn("not a PixBin", 0)>>, <<>>)
            ELSE IF bytes[n + 1] \notin {0, 1}
            THEN RunResult(FALSE, dec._output, <<Warn("wrong endianess code", 0)>>,
                           <<>>)
            ELSE Primer(bytes, n, GetUint32(bytes, n + 1, bytes[n + 1] = 1))
    IN  IF dec._input = Null
        THEN RunResult(FALSE, dec._output, <<Warn("null input", 0)>>, <<>>)
        ELSE Control(dec._input.bytes, Len(MAGIC_NUMBER))

\* a run without the control of the endianness byte: every byte but 0 reads
\* as little-endian
PixBinDecoder_run_NoEndiannessControl(dec, littleEndian) ==
    LET Output(pixBinIndexObj, loop) ==
            IF loop.threw
            THEN RunResult(TRUE, dec._output, loop.progress.warned,
                           loop.progress.decoded)
            ELSE RunResult(FALSE, BinOutput(pixBinIndexObj, loop.progress.blocks),
                           loop.progress.warned, loop.progress.decoded)
        Blocks(bytes, pixBinIndexObj, pixblocksInfo, movingByteOffset) ==
            IF pixblocksInfo.threw THEN RunResult(TRUE, dec._output, <<>>, <<>>)
            ELSE IF Get(pixblocksInfo.v, "length").threw
            THEN RunResult(TRUE, dec._output, <<>>, <<>>)
            ELSE Output(pixBinIndexObj,
                        DecodeBlocks(bytes,
                                     IF pixblocksInfo.v.kind = "array"
                                     THEN pixblocksInfo.v.items ELSE <<>>,
                                     1, Num(movingByteOffset), dec._verifyChecksum,
                                     Progress(<<>>, <<>>, <<>>), littleEndian))
        Index(bytes, pixBinIndexObj, movingByteOffset) ==
            Blocks(bytes, pixBinIndexObj, Get(pixBinIndexObj, "pixblocksInfo"),
                   movingByteOffset)
        Primer(bytes, n, len) ==
            Index(bytes,
                  ArrayBufferToObject(Slice(bytes, n + 5, n + 5 + len), littleEndian),
                  n + 5 + len)
        Control(bytes, n) ==
            IF Len(bytes) < n + 5
            THEN RunResult(FALSE, dec._output, <<Warn("not a PixBin", 0)>>, <<>>)
            ELSE IF SubSeq(bytes, 1, n) # MAGIC_NUMBER
            THEN RunResult(FALSE, dec._output, <<Warn("wrong magic number", 0)>>,
                           <<>>)
            ELSE Primer(bytes, n, GetUint32(bytes, n + 1, bytes[n + 1] # 0))
    IN  IF dec._input = Null
        THEN RunResult(FALSE, dec._output, <<Warn("null input", 0)>>, <<>>)
        ELSE Control(dec._input.bytes, Len(MAGIC_NUMBER))

\* PixBinDecoder.run
PixBinDecoder_run(dec, littleEndian) ==
    LET Output(pixBinIndexObj, loop) ==
            IF loop.threw
            THEN RunResult(TRUE, dec._output, loop.progress.warned,
                           loop.progress.decoded)
            ELSE RunResult(FALSE, BinOutput(pixBinIndexObj, loop.progress.blocks),
                           loop.progress.warned, loop.progress.decoded)
        Blocks(bytes, pixBinIndexObj, pixblocksInfo, movingByteOffset) ==
            IF pixblocksInfo.threw THEN RunResult(TRUE, dec._output, <<>>, <<>>)
            ELSE IF Get(pixblocksInfo.v, "length").threw
            THEN RunResult(TRUE, dec._output, <<>>, <<>>)
            ELSE Output(pixBinIndexObj,
                        DecodeBlocks(bytes,
                                     IF pixblocksInfo.v.kind = "array"
                                     THEN pixblocksInfo.v.items ELSE <<>>,
                                     1, Num(movingByteOffset), dec._verifyChecksum,
                                     Progress(<<>>, <<>>, <<>>), littleEndian))
        Index(bytes, pixBinIndexObj, movingByteOffset) ==
            Blocks(bytes, pixBinIndexObj, Get(pixBinIndexObj, "pixblocksInfo"),
                   movingByteOffset)
        Primer(bytes, n, len) ==
            Index(bytes,
                  ArrayBufferToObject(Slice(bytes, n + 5, n + 5 + len), littleEndian),
                  n + 5 + len)
        Control(bytes, n) ==
            IF Len(bytes) < n + 5
            THEN RunResult(FALSE, dec._output, <<Warn("not a PixBin", 0)>>, <<>>)
            ELSE IF SubSeq(bytes, 1, n) # MAGIC_NUMBER
            THEN RunResult(FALSE, dec._output, <<Warn("wrong magic number", 0)>>,
                           <<>>)
            ELSE IF bytes[n + 1] \notin {0, 1}
            THEN RunResult(FALSE, dec._output, <<Warn("wrong endianess code", 0)>>,
                           <<>>)
            ELSE Primer(bytes, n, GetUint32(bytes, n + 1, bytes[n + 1] = 1))
    IN  IF dec._input = Null
        THEN RunResult(FALSE, dec._output, <<Warn("null input", 0)>>, <<>>)
        ELSE Control(dec._input.bytes, Len(MAGIC_NUMBER))

(***************************************************************************)
(* The inputs                                                              *)
(***************************************************************************)
EmptyObject == Obj("Object", <<>>)
UnitMm == Obj("Object", <<Prop("unit", Str("mm"))>>)
Described == Obj("Object", <<Prop("description", Str("scan"))>>)
NameX == Obj("Object", <<Prop("name", Str("x"))>>)

Bytes12 == TypedArray("Uint8Array", <<1, 2>>, 0, 2)
Float1 == TypedArray("Float32Array", <<0, 0, 128, 63>>, 0, 1)
\* an Int16Array that views bytes 2..3 of a buffer of 6 bytes
PartialView == TypedArray("Int16Array", <<9, 9, 7, 255, 9, 9>>, 2, 1)
EmptyTyped == TypedArray("Uint8Array", <<>>, 0, 0)
\* an Int16Array that views bytes 2..3 of a buffer of 5 bytes
OddView == TypedArray("Int16Array", <<9, 9, 7, 255, 9>>, 2, 1)

\* the containers isGoodCandidate accepts
ValidContainers ==
    { Container("Object", Bytes12, EmptyObject),
      Container("Image2D", Float1, UnitMm),
      Container("Object", PartialView, EmptyObject),
      Container("Object", EmptyTyped, EmptyObject),
      Container("Object", Arr(<<Bytes12, Float1>>), Described),
      Container("Object", Arr(<<Bytes12, NameX>>), EmptyObject),
      Container("Object", Arr(<<NameX, Bytes12>>), EmptyObject),
      Container("Object", Arr(<<Float1>>), EmptyObject),
      Container("Object", Arr(<<>>), EmptyObject),
      Container("Object", NameX, Described) }

\* the candidates it rejects
InvalidCandidates ==
    { Null,
      Container("Object", Absent, EmptyObject),
      Container("Object", Bytes12, Absent),
      Container("Object", Bytes12, Cyclic),
      Container("Object", Num(5), EmptyObject),
      Container("Object", Str("x"), EmptyObject),
      Container("Object", Bool(TRUE), EmptyObject),
      Container("Object", Null, EmptyObject) }

Candidates == ValidContainers \cup InvalidCandidates

(***************************************************************************)
(* The objects and their methods                                           *)
(***************************************************************************)
VARIABLES
    littleEndian,   \* CodecUtils.isPlatformLittleEndian() of the platform
    blockEncoder,   \* a PixBlockEncoder: _compress, _input, _inputCase, _output
    blockDecoder,   \* a PixBlockDecoder: _input, _output
    binEncoder,     \* a PixBinEncoder: _compress, _inputs, _output, _options
    binDecoder,     \* a PixBinDecoder: _verifyChecksum, _input, _output
    call            \* the last method call: its name, its argument, whether it
                    \* threw, what it warned of, decoded and returned

vars == <<littleEndian, blockEncoder, blockDecoder, binEncoder, binDecoder, call>>

NoArg == [kind |-> "none"]
\* a call that warns of nothing, decodes no unit and returns nothing; held
\* is the _output the archive decoder had when its run was called
Call(op, arg, threw) ==
    [op |-> op, arg |-> arg, threw |-> threw, warned |-> <<>>, decoded |-> <<>>,
     held |-> NoArg, returned |-> NoArg]

\* the buffer an encoder made, without its final byte
Truncated(bytes) == SubSeq(bytes, 1, Len(bytes) - 1)

\* the unit with property k of the byteStreamInfo entry of its first stream
\* set to v (a unit without streams is left as it is); le is the byte order
\* of the unit
WithStreamInfo(bytes, le, k, v) ==
    LET Rebuilt(headerBytes, rest) ==
            SubSeq(bytes, 1, 1) \o Uint32Bytes(Len(headerBytes), le)
                \o headerBytes \o rest
        Changed(header, infos, rest) ==
            IF infos = <<>> THEN bytes
            ELSE Rebuilt(objectToArrayBuffer(
                             SetProp(header, "byteStreamInfo",
                                     Arr([infos EXCEPT ![1] = SetProp(@, k, v)])),
                             le).bytes,
                         rest)
        Header(header, end) ==
            Changed(header, GetProp(header, "byteStreamInfo").items,
                    SubSeq(bytes, end + 1, Len(bytes)))
        Primer(headerLength) ==
            Header(ArrayBufferToObject(Slice(bytes, 5, 5 + headerLength), le),
                   5 + headerLength)
    IN  Primer(GetUint32(bytes, 1, le))

\* the buffers a caller hands to a PixBlockDecoder: the unit the encoder
\* made, as it is, without its final byte, with its first stream flagged a
\* typed array, or with an element width of 3 bytes for its first stream
BlockWire(output) ==
    IF output = Null THEN {}
    ELSE {output, Buf(Truncated(output.bytes)),
          Buf(WithStreamInfo(output.bytes, littleEndian, "isTypedArray", Bool(TRUE))),
          Buf(WithStreamInfo(output.bytes, littleEndian, "bytesPerElements", Num(3)))}

\* the unit of a sequence without compression as the format describes it:
\* the streams are the bytes of the elements, in order, the serialisation
\* for an element that is no typed array; the elements are objects
SequenceUnit(input, le) ==
    Concat(BlockBuffers([i \in 1..Len(input._data.items) |->
                            MixedArraysStream_PushSerialized(input._data.items[i],
                                                             FALSE, le)],
                        input, le))

\* the units of another writer of the format a caller hands to a
\* PixBlockDecoder: the unit of the sequence the encoder holds
SequenceWire(enc) ==
    IF enc._input # Null /\ enc._inputCase = dataCases.mixedArrays
    THEN {Buf(SequenceUnit(enc._input, littleEndian))}
    ELSE {}

\* the block decoder has not been used: the encoder is driven first, the
\* decoder afterwards (the two objects share no state)
DecoderIdle == blockDecoder = NewBlockDecoder

EncSetInput(obj) ==
    /\ DecoderIdle
    /\ blockEncoder' = BlockEncoder_setInput(blockEncoder, obj)
    /\ call' = Call("PixBlockEncoder.setInput", obj, FALSE)
    /\ UNCHANGED <<littleEndian, blockDecoder, binEncoder, binDecoder>>

EncEnableDataCompression(b) ==
    /\ DecoderIdle
    /\ blockEncoder' = [blockEncoder EXCEPT !._compress = b]
    /\ call' = Call("PixBlockEncoder.enableDataCompression", Bool(b), FALSE)
    /\ UNCHANGED <<littleEndian, blockDecoder, binEncoder, binDecoder>>

EncRun ==
    /\ DecoderIdle
    /\ LET Done(r) ==
               /\ blockEncoder' = BlockEncoder_ran(blockEncoder, r)
               /\ call' = [Call("PixBlockEncoder.run", NoArg, r.threw)
                               EXCEPT !.warned = IF r.ran \/ r.threw THEN <<>>
                                                 ELSE <<Warn("no input", 0)>>]
       IN  Done(PixBlockEncoder_run(blockEncoder, littleEndian))
    /\ UNCHANGED <<littleEndian, blockDecoder, binEncoder, binDecoder>>

EncReset ==
    /\ DecoderIdle
    /\ blockEncoder' = [blockEncoder EXCEPT !._input = Null, !._inputCase = Null,
                                            !._output = Null]
    /\ call' = Call("PixBlockEncoder.reset", NoArg, FALSE)
    /\ UNCHANGED <<littleEndian, blockDecoder, binEncoder, binDecoder>>

\* PixBlockEncoder.getOutput
EncGetOutput ==
    /\ DecoderIdle
    /\ call' = [Call("PixBlockEncoder.getOutput", NoArg, FALSE)
                    EXCEPT !.returned = blockEncoder._output]
    /\ UNCHANGED <<littleEndian, blockEncoder, blockDecoder, binEncoder, binDecoder>>

\* PixBlockDecoder.setInput with an ArrayBuffer
DecSetInput(buff) ==
    /\ blockDecoder' = [blockDecoder EXCEPT !._input = buff]
    /\ call' = Call("PixBlockDecoder.setInput", buff, FALSE)
    /\ UNCHANGED <<littleEndian, blockEncoder, binEncoder, binDecoder>>

\* PixBlockDecoder.run: _output is assigned by the last statement only
DecRun ==
    /\ LET Done(r) ==
               /\ blockDecoder' =
                     IF r.threw THEN blockDecoder
                     ELSE [blockDecoder EXCEPT !._output = r.v]
               /\ call' = Call("PixBlockDecoder.run", NoArg, r.threw)
       IN  Done(DecodeBlock(blockDecoder._input, littleEndian))
    /\ UNCHANGED <<littleEndian, blockEncoder, binEncoder, binDecoder>>

\* PixBlockDecoder.getOutput
DecGetOutput ==
    /\ call' = [Call("PixBlockDecoder.getOutput", NoArg, FALSE)
                    EXCEPT !.returned = blockDecoder._output]
    /\ UNCHANGED <<littleEndian, blockEncoder, blockDecoder, binEncoder, binDecoder>>

\* PixBlockDecoder.reset
DecReset ==
    /\ blockDecoder' = [blockDecoder EXCEPT !._input = Null, !._output = Null]
    /\ call' = Call("PixBlockDecoder.reset", NoArg, FALSE)
    /\ UNCHANGED <<littleEndian, blockEncoder, binEncoder, binDecoder>>

(***************************************************************************)
(* The archive codec: one PixBinEncoder and one PixBinDecoder              *)
(***************************************************************************)
\* the number of inputs a PixBinEncoder is given at most
MaxInputs == 2

\* the objects handed to PixBinEncoder.addInput
BinCandidates ==
    { Container("Image2D", Float1, UnitMm),
      Container("Object", Arr(<<Bytes12, NameX>>), Described),
      Container("Object", OddView, EmptyObject),
      Null }

\* the options a caller sets: one that exists and one that does not
BinOptions == { <<"description", Str("scan")>>, <<"date", Str("scan")>> }

\* the layout of an archive a PixBinEncoder made: the length of its index,
\* the index, the byte lengths of its units, and the offset of unit k (from 1)
IndexLength(bytes) ==
    GetUint32(bytes, Len(MAGIC_NUMBER) + 1, bytes[Len(MAGIC_NUMBER) + 1] = 1)

ArchiveIndex(bytes, le) ==
    ArrayBufferToObject(Slice(bytes, Len(MAGIC_NUMBER) + 5,
                              Len(MAGIC_NUMBER) + 5 + IndexLength(bytes)), le)

UnitCount(bytes, le) == Len(GetProp(ArchiveIndex(bytes, le), "pixblocksInfo").items)

UnitLength(bytes, le, k) ==
    GetProp(GetProp(ArchiveIndex(bytes, le), "pixblocksInfo").items[k],
            "byteLength").n

RECURSIVE UnitOffset(_, _, _)
UnitOffset(bytes, le, k) ==
    IF k = 1 THEN Len(MAGIC_NUMBER) + 5 + IndexLength(bytes)
    ELSE UnitOffset(bytes, le, k - 1) + UnitLength(bytes, le, k - 1)

\* the bytes of unit k
UnitBytes(bytes, le, k) ==
    Slice(bytes, UnitOffset(bytes, le, k),
          UnitOffset(bytes, le, k) + UnitLength(bytes, le, k))

\* the buffer with the byte at position p (from 1) changed to another value
ChangeByte(bytes, p, delta) ==
    [bytes EXCEPT ![p] = (@ + delta) % 256]

\* the archive in _output is the packing of the inputs, the options and the
\* compression flag the archive encoder holds now
ArchiveOfInputs ==
    /\ binEncoder._output # Null
    /\ PixBinEncoder_run(binEncoder, littleEndian)
           = [threw |-> FALSE, ran |-> TRUE, _output |-> binEncoder._output]

\* the buffers a caller hands to a PixBinDecoder: the archive the encoder
\* has just packed of its inputs, as it is, without its final byte, cut one
\* byte before the end of its primer, with its first magic byte changed,
\* with its endianness byte changed or set to 2, with the first byte of its
\* index changed, or with the last byte of one unit changed
BinWire ==
    IF ~ArchiveOfInputs THEN {}
    ELSE LET bytes == binEncoder._output.bytes
         IN  {Buf(bytes), Buf(Truncated(bytes)),
              Buf(SubSeq(bytes, 1, Len(MAGIC_NUMBER) + 4)),
              Buf([bytes EXCEPT ![Len(MAGIC_NUMBER) + 1] = 2])}
             \cup {Buf(ChangeByte(bytes, p, 1)) :
                      p \in {1, Len(MAGIC_NUMBER) + 1, Len(MAGIC_NUMBER) + 6}}
             \cup {Buf(ChangeByte(bytes,
                                  UnitOffset(bytes, littleEndian, k)
                                      + UnitLength(bytes, littleEndian, k), 1)) :
                      k \in 1..UnitCount(bytes, littleEndian)}

\* the archive decoder has not been used: the encoder is driven first, the
\* decoder afterwards (the two objects share no state)
BinDecoderIdle == binDecoder = NewBinDecoder

BinEncAddInput(obj) ==
    /\ BinDecoderIdle
    /\ Len(binEncoder._inputs) < MaxInputs
    /\ binEncoder' = BinEncoder_addInput(binEncoder, obj)
    /\ call' = Call("PixBinEncoder.addInput", obj, FALSE)
    /\ UNCHANGED <<littleEndian, blockEncoder, blockDecoder, binDecoder>>

BinEncEnableDataCompression(b) ==
    /\ BinDecoderIdle
    /\ binEncoder' = [binEncoder EXCEPT !._compress = b]
    /\ call' = Call("PixBinEncoder.enableDataCompression", Bool(b), FALSE)
    /\ UNCHANGED <<littleEndian, blockEncoder, blockDecoder, binDecoder>>

BinEncSetOption(option) ==
    /\ BinDecoderIdle
    /\ binEncoder' = BinEncoder_setOption(binEncoder, option[1], option[2])
    /\ call' = Call("PixBinEncoder.setOption", Str(option[1]), FALSE)
    /\ UNCHANGED <<littleEndian, blockEncoder, blockDecoder, binDecoder>>

BinEncRun ==
    /\ BinDecoderIdle
    /\ LET Done(r) ==
               /\ binEncoder' = BinEncoder_ran(binEncoder, r)
               /\ call' = Call("PixBinEncoder.run", NoArg, r.threw)
       IN  Done(PixBinEncoder_run(binEncoder, littleEndian))
    /\ UNCHANGED <<littleEndian, blockEncoder, blockDecoder, binDecoder>>

BinEncReset ==
    /\ BinDecoderIdle
    /\ binEncoder' = BinEncoder_reset(binEncoder)
    /\ call' = Call("PixBinEncoder.reset", NoArg, FALSE)
    /\ UNCHANGED <<littleEndian, blockEncoder, blockDecoder, binDecoder>>

\* PixBinDecoder.setInput with an ArrayBuffer
BinDecSetInput(buff) ==
    /\ binDecoder' = [binDecoder EXCEPT !._input = buff]
    /\ call' = Call("PixBinDecoder.setInput", buff, FALSE)
    /\ UNCHANGED <<littleEndian, blockEncoder, blockDecoder, binEncoder>>

BinDecEnableBlockVerification(b) ==
    /\ binDecoder' = [binDecoder EXCEPT !._verifyChecksum = b]
    /\ call' = Call("PixBinDecoder.enableBlockVerification", Bool(b), FALSE)
    /\ UNCHANGED <<littleEndian, blockEncoder, blockDecoder, binEncoder>>

\* a run that decodes nothing when an output is stored
BinDecRun_Cached ==
    /\ LET Done(r) ==
               /\ binDecoder' = [binDecoder EXCEPT !._output = r._output]
               /\ call' = [Call("PixBinDecoder.run", NoArg, r.threw)
                               EXCEPT !.warned = r.warned, !.decoded = r.decoded,
                                      !.held = binDecoder._output]
       IN  Done(IF binDecoder._output # Null
                THEN RunResult(FALSE, binDecoder._output, <<>>, <<>>)
                ELSE PixBinDecoder_run(binDecoder, littleEndian))
    /\ UNCHANGED <<littleEndian, blockEncoder, blockDecoder, binEncoder>>

\* PixBinDecoder.run
BinDecRun ==
    /\ LET Done(r) ==
               /\ binDecoder' = [binDecoder EXCEPT !._output = r._output]
               /\ call' = [Call("PixBinDecoder.run", NoArg, r.threw)
                               EXCEPT !.warned = r.warned, !.decoded = r.decoded,
                                      !.held = binDecoder._output]
       IN  Done(PixBinDecoder_run(binDecoder, littleEndian))
    /\ UNCHANGED <<littleEndian, blockEncoder, blockDecoder, binEncoder>>

\* PixBinDecoder.getOutput
BinDecGetOutput ==
    /\ call' = [Call("PixBinDecoder.getOutput", NoArg, FALSE)
                    EXCEPT !.returned = binDecoder._output]
    /\ UNCHANGED <<littleEndian, blockEncoder, blockDecoder, binEncoder, binDecoder>>

BinDecReset ==
    /\ binDecoder' = BinDecoder_reset(binDecoder)
    /\ call' = Call("PixBinDecoder.reset", NoArg, FALSE)
    /\ UNCHANGED <<littleEndian, blockEncoder, blockDecoder, binEncoder>>

Init ==
    /\ littleEndian \in BOOLEAN
    /\ blockEncoder = NewBlockEncoder
    /\ blockDecoder = NewBlockDecoder
    /\ binEncoder = NewBinEncoder
    /\ binDecoder = NewBinDecoder
    /\ call = Call("new", NoArg, FALSE)

\* the unit codec: one PixBlockEncoder and one PixBlockDecoder
Next ==
    \/ \E obj \in Candidates : EncSetInput(obj)
    \/ \E b \in BOOLEAN : EncEnableDataCompression(b)
    \/ EncRun
    \/ EncReset
    \/ EncGetOutput
    \/ \E buff \in BlockWire(blockEncoder._output) \cup SequenceWire(blockEncoder) :
          DecSetInput(buff)
    \/ DecRun
    \/ DecGetOutput
    \/ DecReset

Spec == Init /\ [][Next]_vars

\* the archive codec
NextBin ==
    \/ \E obj \in BinCandidates : BinEncAddInput(obj)
    \/ \E b \in BOOLEAN : BinEncEnableDataCompression(b)
    \/ \E option \in BinOptions : BinEncSetOption(option)
    \/ BinEncRun
    \/ BinEncReset
    \/ \E buff \in BinWire : BinDecSetInput(buff)
    \/ \E b \in BOOLEAN : BinDecEnableBlockVerification(b)
    \/ BinDecRun
    \/ BinDecGetOutput
    \/ BinDecReset

SpecBin == Init /\ [][NextBin]_vars


(***************************************************************************)
(* The claims                                                              *)
(***************************************************************************)
\* the bytes in _output are the encoding of the input and the compression
\* flag the block encoder holds now
BlockOutputOfInput ==
    /\ blockEncoder._output # Null
    /\ PixBlockEncoder_run(blockEncoder, littleEndian)
           = [threw |-> FALSE, ran |-> TRUE, _output |-> blockEncoder._output]

\* a decoded value has the element kind, the length and the values of the
\* value that was encoded
SameValue(decoded, original) ==
    IF original.kind = "typed"
    THEN /\ decoded.kind = "typed"
         /\ decoded.ctor = original.ctor
         /\ decoded.length = original.length
         /\ ViewBytes(decoded) = ViewBytes(original)
    ELSE decoded = original

\* decoded data against the data that was encoded, a single stream being
\* returned bare
SameData(decoded, original) ==
    IF original.kind = "array" /\ Len(original.items) = 1
    THEN SameValue(decoded, original.items[1])
    ELSE IF original.kind = "array"
    THEN /\ decoded.kind = "array"
         /\ Len(decoded.items) = Len(original.items)
         /\ \A i \in 1..Len(original.items) :
               SameValue(decoded.items[i], original.items[i])
    ELSE SameValue(decoded, original)

\* C1: unit round trip.  PixBlockEncoder.run encodes every container it
\* accepted, with and without compression, and PixBlockDecoder.run on those
\* bytes yields _data with the element kind, length and values of the input
\* (a single stream bare) and _metadata equal to the input's.
C1_UnitRoundTrip ==
    /\ (call.op = "PixBlockEncoder.run" /\ blockEncoder._input # Null
            /\ Truthy(blockEncoder._inputCase))
         => ~call.threw
    /\ (call.op = "PixBlockDecoder.run" /\ BlockOutputOfInput
            /\ blockDecoder._input = blockEncoder._output)
         => /\ ~call.threw
            /\ SameData(blockDecoder._output._data, blockEncoder._input._data)
            /\ blockDecoder._output._metadata = blockEncoder._input._metadata

\* PixBlockDecoder applied to PixBlockEncoder's encoding of a container
UnitOf(container, compress) ==
    DecodeBlock(
        PixBlockEncoder_run(
            [BlockEncoder_setInput(NewBlockEncoder, container)
                 EXCEPT !._compress = compress],
            littleEndian)._output,
        littleEndian)

\* C2: archive fan-out.  PixBinDecoder.run on the archive PixBinEncoder.run
\* packed of N accepted containers reports N units, and unit i is what
\* PixBlockDecoder yields on PixBlockEncoder's encoding of container i,
\* with checksum verification enabled or disabled.
C2_ArchiveFanOut ==
    (call.op = "PixBinDecoder.run" /\ ArchiveOfInputs
        /\ binDecoder._input = binEncoder._output)
      => /\ ~call.threw
         /\ binDecoder._output # Null
         /\ Len(binDecoder._output.blocks) = Len(binEncoder._inputs)
         /\ \A i \in 1..Len(binEncoder._inputs) :
               Ret(binDecoder._output.blocks[i])
                   = UnitOf(binEncoder._inputs[i], binEncoder._compress)

\* the changes made to one byte
ByteChanges == {1, 128}

\* the positions (from 1) of the bytes of unit k of an archive
UnitPositions(bytes, k) ==
    (UnitOffset(bytes, littleEndian, k) + 1) ..
        (UnitOffset(bytes, littleEndian, k) + UnitLength(bytes, littleEndian, k))

\* PixBinDecoder.run of a decoder that holds nothing but the buffer
RunOn(bytes, verifyChecksum) ==
    PixBinDecoder_run([NewBinDecoder EXCEPT !._input = Buf(bytes),
                                            !._verifyChecksum = verifyChecksum],
                      littleEndian)

\* what a run yields for unit j: the decoded unit, or nothing
Nothing == [kind |-> "nothing"]

Yield(run, j) ==
    IF run.threw \/ run._output = Null THEN Nothing
    ELSE IF \E n \in 1..Len(run.decoded) : run.decoded[n] = j
    THEN run._output.blocks[CHOOSE n \in 1..Len(run.decoded) : run.decoded[n] = j]
    ELSE Nothing

\* a run with verification on a buffer that differs from the archive in one
\* byte of unit k: unit k fails the checksum, is not decoded and yields
\* nothing, and every other unit yields what it yields on the archive
ChecksumCatches(archive, changed, k, run) ==
    /\ \E n \in 1..Len(run.warned) : run.warned[n] = Warn("checksum", k)
    /\ \A n \in 1..Len(run.decoded) : run.decoded[n] # k
    /\ Yield(run, k) = Nothing
    /\ \A j \in 1..UnitCount(archive, littleEndian) :
          j # k => Yield(run, j) = Yield(RunOn(archive, TRUE), j)

\* the buffer the archive decoder holds is the archive of the encoder with
\* one byte of unit k changed
InputChangedInUnit(k) ==
    /\ binEncoder._output # Null /\ binDecoder._input # Null
    /\ k \in 1..UnitCount(binEncoder._output.bytes, littleEndian)
    /\ \E p \in UnitPositions(binEncoder._output.bytes, k) :
          \E d \in 1..255 :
             binDecoder._input.bytes = ChangeByte(binEncoder._output.bytes, p, d)

\* C3: checksum sensitivity.  With block verification enabled, changing any
\* single byte inside the byte range of unit i of an archive makes the
\* decode of unit i fail the checksum and yield no decoded data, while every
\* other unit yields the same container as on the unmodified archive.
C3_ChecksumSensitivity ==
    /\ (call.op = "PixBinEncoder.run" /\ ~call.threw /\ binEncoder._output # Null)
         => \A k \in 1..UnitCount(binEncoder._output.bytes, littleEndian) :
              \A p \in UnitPositions(binEncoder._output.bytes, k) :
                \A d \in ByteChanges :
                   ChecksumCatches(binEncoder._output.bytes,
                       ChangeByte(binEncoder._output.bytes, p, d), k,
                       RunOn(ChangeByte(binEncoder._output.bytes, p, d), TRUE))
    /\ (call.op = "PixBinDecoder.run" /\ binDecoder._verifyChecksum)
         => \A k \in 1..MaxInputs :
              InputChangedInUnit(k)
                => ChecksumCatches(binEncoder._output.bytes, binDecoder._input.bytes, k,
                       [threw |-> call.threw, _output |-> binDecoder._output,
                        warned |-> call.warned, decoded |-> call.decoded])

\* the primer and the index of a buffer are those of an archive: enough
\* bytes, the magic number, an endianness byte of 0 or 1, an index that
\* lists the units
IndexIntact(bytes) ==
    /\ Len(bytes) >= Len(MAGIC_NUMBER) + 5
    /\ SubSeq(bytes, 1, Len(MAGIC_NUMBER)) = MAGIC_NUMBER
    /\ bytes[Len(MAGIC_NUMBER) + 1] \in {0, 1}
    /\ ArchiveIndex(bytes, littleEndian).kind = "object"
    /\ GetProp(ArchiveIndex(bytes, littleEndian), "pixblocksInfo").kind = "array"

\* C4: per-unit decode errors are local.  When PixBinDecoder.run decodes an
\* archive of which some unit fails to decode for a reason other than the
\* checksum, no exception escapes, and every unit that PixBlockDecoder
\* decodes is among the units returned.
C4_UnitErrorsAreLocal ==
    (call.op = "PixBinDecoder.run" /\ ~binDecoder._verifyChecksum
        /\ binDecoder._input # Null /\ IndexIntact(binDecoder._input.bytes))
      => /\ ~call.threw
         /\ \A j \in 1..UnitCount(binDecoder._input.bytes, littleEndian) :
               LET unit == DecodeBlock(
                               Buf(UnitBytes(binDecoder._input.bytes, littleEndian, j)),
                               littleEndian)
               IN  ~unit.threw
                     => /\ binDecoder._output # Null
                        /\ \E n \in 1..Len(binDecoder._output.blocks) :
                              binDecoder._output.blocks[n] = unit.v

\* C5: truncation.  PixBlockDecoder.run on a unit PixBlockEncoder made,
\* without its final byte, reports an error and returns no container.
C5_TruncationIsReported ==
    (call.op = "PixBlockDecoder.run" /\ blockEncoder._output # Null
        /\ blockDecoder._input = Buf(Truncated(blockEncoder._output.bytes)))
      => call.threw

\* the first bytes of the buffer are not the magic number
MagicMismatch(bytes) ==
    /\ Len(bytes) >= Len(MAGIC_NUMBER) + 5
    /\ SubSeq(bytes, 1, Len(MAGIC_NUMBER)) # MAGIC_NUMBER

ResultStored ==
    /\ binDecoder._input # Null
    /\ binDecoder._output # Null
    /\ binDecoder._output
           = RunOn(binDecoder._input.bytes, binDecoder._verifyChecksum)._output

Empty == binDecoder._input = Null /\ binDecoder._output = Null
Indexed == binDecoder._output # Null
RunFailed(c) ==
    /\ c.op = "PixBinDecoder.run"
    /\ \/ c.threw
       \/ \E n \in 1..Len(c.warned) : c.warned[n].i = 0
Invalid == RunFailed(call) /\ binDecoder._output = Null

ExpectedCase(data) ==
    CASE data.kind \in {"number", "string", "boolean", "null", "undefined"}
             -> dataCases.invalid
      [] data.kind = "typed" -> dataCases.typedArray
      [] data.kind = "array" -> dataCases.mixedArrays
      [] OTHER -> dataCases.complexObject

\* a candidate with both attributes and metadata that can be serialised
WellFormed(obj) ==
    /\ obj # Null
    /\ obj._data # Absent
    /\ obj._metadata # Absent
    /\ obj._metadata # Cyclic

Rejected(obj) ==
    \/ ~WellFormed(obj)
    \/ ExpectedCase(obj._data) = dataCases.invalid

UnitEncodes(container, compress) ==
    PixBlockEncoder_run(
        [BlockEncoder_setInput(NewBlockEncoder, container)
             EXCEPT !._compress = compress],
        littleEndian).ran

\* the bytes PixBlockEncoder.run makes of a container it encodes
UnitBytesOf(container, compress) ==
    PixBlockEncoder_run(
        [BlockEncoder_setInput(NewBlockEncoder, container)
             EXCEPT !._compress = compress],
        littleEndian)._output.bytes

\* the inputs of the archive encoder whose unit encoding succeeds, in order
WrittenInputs ==
    LET Succeeds(input) == UnitEncodes(input, binEncoder._compress)
    IN  SelectSeq(binEncoder._inputs, Succeeds)

\* the index entries of an archive
IndexEntries(bytes) ==
    GetProp(ArchiveIndex(bytes, littleEndian), "pixblocksInfo").items

\* entry k of the index of the archive describes unit k, and unit k is the
\* encoding of the input
EntryDescribes(bytes, k, input, compress) ==
    /\ UnitBytes(bytes, littleEndian, k) = UnitBytesOf(input, compress)
    /\ GetProp(IndexEntries(bytes)[k], "byteLength")
           = Num(Len(UnitBytesOf(input, compress)))
    /\ GetProp(IndexEntries(bytes)[k], "checksum")
           = md5(UnitBytesOf(input, compress))
    /\ GetProp(IndexEntries(bytes)[k], "type") = Str(input.ctor)
    /\ GetProp(IndexEntries(bytes)[k], "description")
           = IF HasProp(input._metadata, "description")
             THEN GetProp(input._metadata, "description") ELSE Null

\* C11: partial success of the archive encoder.  After PixBinEncoder.run
\* on inputs of which at least one encodes, the archive has one index entry
\* and one unit per input whose unit encoding succeeds, in the order of the
\* inputs, each entry with the byte length and the checksum of its unit and
\* the type and description of its input, and no other bytes; an input whose
\* unit encoding fails is skipped and the encoding continues.
C11_PartialSuccess ==
    (call.op = "PixBinEncoder.run" /\ WrittenInputs # <<>>)
      => /\ ~call.threw
         /\ binEncoder._output # Null
         /\ ArchiveIndex(binEncoder._output.bytes, littleEndian).kind = "object"
         /\ Len(IndexEntries(binEncoder._output.bytes)) = Len(WrittenInputs)
         /\ \A k \in 1..Len(WrittenInputs) :
               EntryDescribes(binEncoder._output.bytes, k, WrittenInputs[k],
                              binEncoder._compress)
         /\ Len(binEncoder._output.bytes)
               = UnitOffset(binEncoder._output.bytes, littleEndian,
                            Len(WrittenInputs) + 1)

\* C12: PixBinEncoder.run fails, producing no archive bytes, if and only
\* if no input was encoded: with no input whose unit encoding succeeds it
\* throws or leaves _output as it was, and with at least one it throws
\* nothing and leaves an archive in _output.
C12_FailsOnlyWithoutUnits ==
    [][ call'.op = "PixBinEncoder.run"
          => /\ WrittenInputs = <<>>
                  => \/ call'.threw
                     \/ binEncoder'._output = binEncoder._output
             /\ WrittenInputs # <<>>
                  => /\ ~call'.threw
                     /\ binEncoder'._output # Null
                     /\ UnitCount(binEncoder'._output.bytes, littleEndian) >= 1
      ]_vars

\* a structural error of the primer or the header of an archive buffer: too
\* short, a wrong magic number, an endianness byte that is neither 0 nor 1,
\* or a header that is no JSON text
StructuralError(bytes) ==
    \/ Len(bytes) < Len(MAGIC_NUMBER) + 5
    \/ SubSeq(bytes, 1, Len(MAGIC_NUMBER)) # MAGIC_NUMBER
    \/ bytes[Len(MAGIC_NUMBER) + 1] \notin {0, 1}
    \/ ArchiveIndex(bytes, littleEndian) = Null

\* C13: structural errors are fatal for the whole buffer.  After
\* PixBinDecoder.run on a buffer with a structural error, getOutput returns
\* null: neither a header nor units.
C13_StructuralErrorsAreFatal ==
    [][ (call.op = "PixBinDecoder.run" /\ binDecoder._input # Null
            /\ StructuralError(binDecoder._input.bytes)
            /\ call'.op = "PixBinDecoder.getOutput")
          => call'.returned = Null ]_vars

\* the layout of a unit PixBlockEncoder made: the length of its header as
\* its primer gives it in the byte order of its flag, its header, and the
\* offset of its metadata section
UnitHeaderLength(bytes) == GetUint32(bytes, 1, bytes[1] = 1)

UnitHeader(bytes) ==
    ArrayBufferToObject(Slice(bytes, 5, 5 + UnitHeaderLength(bytes)), littleEndian)

MetadataOffset(bytes) == 5 + UnitHeaderLength(bytes)

\* the metadata section of the unit is the serialisation of the metadata,
\* and the header gives its byte length
MetadataAsSerialized(bytes, metadata) ==
    /\ GetProp(UnitHeader(bytes), "metadataByteLength")
           = Num(Len(objectToArrayBuffer(metadata, littleEndian).bytes))
    /\ Slice(bytes, MetadataOffset(bytes),
             MetadataOffset(bytes)
                 + Len(objectToArrayBuffer(metadata, littleEndian).bytes))
           = objectToArrayBuffer(metadata, littleEndian).bytes

\* C14: metadata is never compressed.  In every unit PixBlockEncoder.run
\* emits, the metadata section is the serialisation of _metadata and the
\* header's metadataByteLength is its byte length, and this is so in the unit
\* of the same container made with the other compression flag: the section
\* is the same bytes with and without compression.
C14_MetadataNeverCompressed ==
    (call.op = "PixBlockEncoder.run" /\ BlockOutputOfInput)
      => /\ MetadataAsSerialized(blockEncoder._output.bytes,
                                 blockEncoder._input._metadata)
         /\ \A c \in BOOLEAN :
               UnitEncodes(blockEncoder._input, c)
                 => MetadataAsSerialized(UnitBytesOf(blockEncoder._input, c),
                                         blockEncoder._input._metadata)

\* a unit with metadata was made with compression, and the same container
\* encodes without
C14_Witness ==
    /\ call.op = "PixBlockEncoder.run"
    /\ BlockOutputOfInput
    /\ blockEncoder._compress
    /\ blockEncoder._input._metadata = UnitMm
    /\ UnitEncodes(blockEncoder._input, FALSE)
    /\ Len(objectToArrayBuffer(UnitMm, littleEndian).bytes) > 0

\* the stream infos the header of a unit lists, and the offset of its first
\* stream
StreamInfos(bytes) == GetProp(UnitHeader(bytes), "byteStreamInfo").items

StreamsOffset(bytes) ==
    MetadataOffset(bytes) + GetProp(UnitHeader(bytes), "metadataByteLength").n

\* the values of the streams of a unit, in header order
StreamValues(bytes) ==
    DecodeStreams(bytes, StreamInfos(bytes), 1, Num(StreamsOffset(bytes)), <<>>,
                  littleEndian).v

\* a decoded value has the shape of the element that was encoded
SameShape(decoded, element) ==
    IF element.kind = "typed"
    THEN decoded.kind = "typed" /\ decoded.ctor = element.ctor
    ELSE decoded = element

\* C15: single-stream unwrap.  Whenever PixBlockDecoder.run returns, _data
\* is the bare value of the stream when the header of the unit lists exactly
\* one stream, and otherwise a sequence with one element per stream of the
\* header, in header order; so the unit of a one-element sequence decodes
\* to the bare element, not to a sequence.
C15_SingleStreamUnwrap ==
    (call.op = "PixBlockDecoder.run" /\ ~call.threw)
      => /\ Len(StreamInfos(blockDecoder._input.bytes)) = 1
               => blockDecoder._output._data
                      = StreamValues(blockDecoder._input.bytes)[1]
         /\ Len(StreamInfos(blockDecoder._input.bytes)) # 1
               => /\ blockDecoder._output._data.kind = "array"
                  /\ Len(blockDecoder._output._data.items)
                         = Len(StreamInfos(blockDecoder._input.bytes))
                  /\ blockDecoder._output._data.items
                         = StreamValues(blockDecoder._input.bytes)
         /\ (/\ BlockOutputOfInput
             /\ blockDecoder._input = blockEncoder._output
             /\ blockEncoder._input._data.kind = "array"
             /\ Len(blockEncoder._input._data.items) = 1)
               => SameShape(blockDecoder._output._data,
                            blockEncoder._input._data.items[1])

\* the unit of a sequence of one Float32Array was decoded
C15_Witness ==
    /\ call.op = "PixBlockDecoder.run"
    /\ ~call.threw
    /\ BlockOutputOfInput
    /\ blockDecoder._input = blockEncoder._output
    /\ blockEncoder._input._data = Arr(<<Float1>>)
    /\ Len(StreamInfos(blockDecoder._input.bytes)) = 1
    /\ blockDecoder._output._data.kind = "typed"
    /\ blockDecoder._output._data.ctor = "Float32Array"

\* C16: zero-length typed buffers.  A container whose _data is a typed
\* array of no element encodes, with and without compression, and the unit
\* decodes to a typed array of no element of the same element kind.
C16_EmptyTypedRoundTrip ==
    /\ (call.op = "PixBlockEncoder.run" /\ blockEncoder._input # Null
            /\ Truthy(blockEncoder._inputCase)
            /\ blockEncoder._input._data.kind = "typed"
            /\ blockEncoder._input._data.length = 0)
         => ~call.threw /\ blockEncoder._output # Null
    /\ (call.op = "PixBlockDecoder.run" /\ BlockOutputOfInput
            /\ blockDecoder._input = blockEncoder._output
            /\ blockEncoder._input._data.kind = "typed"
            /\ blockEncoder._input._data.length = 0)
         => /\ ~call.threw
            /\ blockDecoder._output._data.kind = "typed"
            /\ blockDecoder._output._data.ctor = blockEncoder._input._data.ctor
            /\ blockDecoder._output._data.length = 0

\* the controls of the primer: enough bytes, the magic number, an
\* endianness byte of 0 or 1
PassesControls(bytes) ==
    /\ Len(bytes) >= Len(MAGIC_NUMBER) + 5
    /\ SubSeq(bytes, 1, Len(MAGIC_NUMBER)) = MAGIC_NUMBER
    /\ bytes[Len(MAGIC_NUMBER) + 1] \in {0, 1}

\* a run that reported the buffer invalid: one warning about the buffer, no
\* exception (a read past the end of the buffer throws a RangeError), no
\* unit handed to the block decoder
ReportedInvalid(c) ==
    /\ ~c.threw
    /\ Len(c.warned) = 1
    /\ c.warned[1] \in {Warn("not a PixBin", 0), Warn("wrong magic number", 0),
                        Warn("wrong endianess code", 0)}
    /\ c.decoded = <<>>

\* C17: primer validation.  PixBinDecoder.run reports the buffer invalid,
\* throws nothing and assigns no output whenever the buffer is shorter than
\* the magic number plus 5 bytes, its magic number is wrong or its endianness
\* byte is neither 0 nor 1; only a buffer that passes the three controls has
\* its header parsed, and the header parsed is the output's meta.
C17_PrimerValidation ==
    [][ (call'.op = "PixBinDecoder.run" /\ binDecoder._input # Null)
          => /\ Len(binDecoder._input.bytes) < Len(MAGIC_NUMBER) + 5
                  => call'.warned = <<Warn("not a PixBin", 0)>>
             /\ (/\ Len(binDecoder._input.bytes) >= Len(MAGIC_NUMBER) + 5
                 /\ SubSeq(binDecoder._input.bytes, 1, Len(MAGIC_NUMBER))
                        = MAGIC_NUMBER
                 /\ binDecoder._input.bytes[Len(MAGIC_NUMBER) + 1] \notin {0, 1})
                  => call'.warned = <<Warn("wrong endianess code", 0)>>
             /\ ~PassesControls(binDecoder._input.bytes)
                  => /\ ReportedInvalid(call')
                     /\ binDecoder'._output = binDecoder._output
             /\ PassesControls(binDecoder._input.bytes)
                  => /\ ~ReportedInvalid(call')
                     /\ ~call'.threw
                          => binDecoder'._output.meta
                                 = ArchiveIndex(binDecoder._input.bytes,
                                                littleEndian) ]_vars

\* the decoder has run on an archive whose endianness byte is 2
C17_Witness ==
    /\ call.op = "PixBinDecoder.run"
    /\ binDecoder._input # Null
    /\ Len(binDecoder._input.bytes) >= Len(MAGIC_NUMBER) + 5
    /\ SubSeq(binDecoder._input.bytes, 1, Len(MAGIC_NUMBER)) = MAGIC_NUMBER
    /\ binDecoder._input.bytes[Len(MAGIC_NUMBER) + 1] = 2
    /\ call.warned = <<Warn("wrong endianess code", 0)>>
    /\ ~call.threw

\* the byte length a stream info declares for the stream on the wire: the
\* compressed byte length when it is set, else the raw byte length
\* (byteLength of a typed array, length of a serialised value)
RECURSIVE DeclaredLengths(_, _)
DeclaredLengths(infos, i) ==
    IF i > Len(infos) THEN 0
    ELSE (IF Truthy(GetProp(infos[i], "compressedByteLength"))
          THEN GetProp(infos[i], "compressedByteLength").n
          ELSE IF Truthy(GetProp(infos[i], "isTypedArray"))
          THEN GetProp(infos[i], "byteLength").n
          ELSE GetProp(infos[i], "length").n)
         + DeclaredLengths(infos, i + 1)

\* C18: stream-length invariant.  In every unit PixBlockEncoder.run emits,
\* every stream info has compressedByteLength set if and only if compression
\* was enabled, and the bytes written for the streams are exactly the bytes
\* the infos declare: the unit ends where the declared lengths end.  This
\* holds for a typed array that views part of a buffer and for the elements
\* of a sequence that are not typed arrays.
C18_StreamLengths ==
    (call.op = "PixBlockEncoder.run" /\ BlockOutputOfInput)
      => /\ \A i \in 1..Len(StreamInfos(blockEncoder._output.bytes)) :
               Truthy(GetProp(StreamInfos(blockEncoder._output.bytes)[i],
                              "compressedByteLength"))
                   = blockEncoder._compress
         /\ Len(blockEncoder._output.bytes)
               = StreamsOffset(blockEncoder._output.bytes)
                   + DeclaredLengths(StreamInfos(blockEncoder._output.bytes), 1)

\* where stream k of a unit begins, by the lengths its header declares
StreamStart(bytes, k) ==
    StreamsOffset(bytes) + DeclaredLengths(StreamInfos(bytes), 1)
        - DeclaredLengths(StreamInfos(bytes), k)

\* stream k of the unit is the serialisation of the element, deflated when
\* compression is enabled, and its info records the serialised byte length
\* and that it is no typed array
SerializedStream(bytes, k, element, compress) ==
    /\ GetProp(StreamInfos(bytes)[k], "isTypedArray") = Bool(FALSE)
    /\ GetProp(StreamInfos(bytes)[k], "length")
           = Num(Len(objectToArrayBuffer(element, littleEndian).bytes))
    /\ Slice(bytes, StreamStart(bytes, k), StreamStart(bytes, k + 1))
           = IF compress
             THEN Deflate(objectToArrayBuffer(element, littleEndian).bytes)
             ELSE objectToArrayBuffer(element, littleEndian).bytes

\* C19: elements of a sequence that are not typed arrays.  PixBlockEncoder.run
\* on a container whose _data is a sequence emits a unit, with and without
\* compression, in which the stream of every element that is not a typed
\* array is the serialisation of the element, deflated when compression is
\* enabled and raw when it is not, with the serialised byte length in the
\* stream info and isTypedArray false.
C19_NonTypedElements ==
    (call.op = "PixBlockEncoder.run" /\ blockEncoder._input # Null
        /\ blockEncoder._inputCase = dataCases.mixedArrays)
      => /\ ~call.threw
         /\ blockEncoder._output # Null
         /\ Len(StreamInfos(blockEncoder._output.bytes))
               = Len(blockEncoder._input._data.items)
         /\ \A k \in 1..Len(blockEncoder._input._data.items) :
               blockEncoder._input._data.items[k].kind # "typed"
                 => SerializedStream(blockEncoder._output.bytes, k,
                                     blockEncoder._input._data.items[k],
                                     blockEncoder._compress)

\* the typed array constructor a stream info names: Int for an integer
\* stream whose signed field is true, Uint when it is false, Float for a
\* float stream, of bytesPerElements bytes per element
DeclaredKind(info) ==
    LET Sized(prefix, bytesPerElements) ==
            CASE bytesPerElements = 1 -> prefix \o "8Array"
              [] bytesPerElements = 2 -> prefix \o "16Array"
              [] bytesPerElements = 4 -> prefix \o "32Array"
              [] bytesPerElements = 8 -> prefix \o "64Array"
    IN  IF GetProp(info, "type") = Str("float")
        THEN Sized("Float", GetProp(info, "bytesPerElements").n)
        ELSE Sized(IF GetProp(info, "signed") = Bool(TRUE) THEN "Int" ELSE "Uint",
                   GetProp(info, "bytesPerElements").n)

\* the streams PixBlockDecoder.run has decoded, in header order
DecodedStreams(output, n) ==
    IF n = 1 THEN <<output._data>> ELSE output._data.items

\* C20: element kind reconstruction.  Whenever PixBlockDecoder.run returns
\* a value for a typed stream of a unit, it is a signed integer array when
\* the stream info's signed field is true, an unsigned one when it is
\* false, a Float array for a float stream, with elements of
\* bytesPerElements bytes; for a stream flagged non-typed it is the
\* deserialised value, no typed array.
C20_ElementKind ==
    (call.op = "PixBlockDecoder.run" /\ ~call.threw)
      => \A k \in 1..Len(StreamInfos(blockDecoder._input.bytes)) :
            LET info == StreamInfos(blockDecoder._input.bytes)[k]
                stream == DecodedStreams(blockDecoder._output,
                              Len(StreamInfos(blockDecoder._input.bytes)))[k]
            IN  IF GetProp(info, "isTypedArray") = Bool(TRUE)
                THEN stream.kind = "typed" => stream.ctor = DeclaredKind(info)
                ELSE stream.kind # "typed"

\* C21: endianness of the unit primer.  PixBlockEncoder.run writes the
\* header length in the byte order its flag declares (flag 1 and
\* little-endian, or flag 0 and big-endian), and PixBlockDecoder.run reads
\* it in the byte order of the flag: on the unit an encoder made of a typed
\* array with compression, on either kind of platform, it returns, and what
\* it returns carries the originalBlockType of the header that lies at the
\* length the flag's byte order gives.
C21_PrimerEndianness ==
    /\ (call.op = "PixBlockEncoder.run" /\ BlockOutputOfInput)
         => /\ blockEncoder._output.bytes[1] = (IF littleEndian THEN 1 ELSE 0)
            /\ UnitHeader(blockEncoder._output.bytes).kind = "object"
            /\ UnitHeader(blockEncoder._output.bytes)
                   = ArrayBufferToObject(
                         Slice(blockEncoder._output.bytes, 5,
                               StreamsOffset(blockEncoder._output.bytes)
                                   - GetProp(UnitHeader(blockEncoder._output.bytes),
                                             "metadataByteLength").n),
                         littleEndian)
    /\ (call.op = "PixBlockDecoder.run" /\ BlockOutputOfInput
            /\ blockDecoder._input = blockEncoder._output
            /\ blockEncoder._input._data.kind = "typed"
            /\ blockEncoder._compress)
         => /\ ~call.threw
            /\ blockDecoder._output.originalBlockType
                   = GetProp(UnitHeader(blockDecoder._input.bytes),
                             "originalBlockType")

\* the elements for which PixBlockEncoder.run makes one stream each
StreamElements(data) == IF data.kind = "array" THEN data.items ELSE <<data>>

\* the payload segment of an element: the bytes of its buffer when it is a
\* typed array, its serialisation otherwise, deflated when compression is
\* enabled
PayloadSegment(element, compress) ==
    LET OnWire(raw) == IF compress THEN Deflate(raw) ELSE raw
    IN  OnWire(IF element.kind = "typed" THEN element.buffer
               ELSE objectToArrayBuffer(element, littleEndian).bytes)

RECURSIVE PayloadLength(_, _, _)
\* the sum of the on-wire lengths of the segments of elements 1..k
PayloadLength(elements, k, compress) ==
    IF k = 0 THEN 0
    ELSE PayloadLength(elements, k - 1, compress)
         + Len(PayloadSegment(elements[k], compress))

\* entry k of the header describes element k, and segment k of the payload
\* section is the segment of element k
SegmentInOrder(bytes, elements, k, compress) ==
    /\ GetProp(StreamInfos(bytes)[k], "isTypedArray")
           = Bool(elements[k].kind = "typed")
    /\ elements[k].kind = "typed"
         => /\ GetProp(StreamInfos(bytes)[k], "bytesPerElements")
                   = Num(BYTES_PER_ELEMENT(elements[k].ctor))
            /\ GetProp(StreamInfos(bytes)[k], "length") = Num(elements[k].length)
    /\ Slice(bytes, StreamsOffset(bytes) + PayloadLength(elements, k - 1, compress),
             StreamsOffset(bytes) + PayloadLength(elements, k, compress))
           = PayloadSegment(elements[k], compress)

\* C22: unit layout.  Every unit PixBlockEncoder.run emits consists of one
\* endianness byte, a 4-byte header length equal to the byte length of the
\* serialised header, the header, the metadata, then one payload segment per
\* byteStreamInfo entry in the order of the entries; its total length is
\* 5 + the header length + metadataByteLength + the sum of the on-wire
\* lengths of the segments.
C22_UnitLayout ==
    (call.op = "PixBlockEncoder.run" /\ BlockOutputOfInput)
      => /\ Len(blockEncoder._output.bytes) >= 5
         /\ blockEncoder._output.bytes[1] \in {0, 1}
         /\ UnitHeader(blockEncoder._output.bytes).kind = "object"
         /\ Slice(blockEncoder._output.bytes, 5,
                  5 + UnitHeaderLength(blockEncoder._output.bytes))
                = objectToArrayBuffer(UnitHeader(blockEncoder._output.bytes),
                                      littleEndian).bytes
         /\ UnitHeaderLength(blockEncoder._output.bytes)
                = Len(objectToArrayBuffer(UnitHeader(blockEncoder._output.bytes),
                                          littleEndian).bytes)
         /\ MetadataAsSerialized(blockEncoder._output.bytes,
                                 blockEncoder._input._metadata)
         /\ Len(StreamInfos(blockEncoder._output.bytes))
                = Len(StreamElements(blockEncoder._input._data))
         /\ \A k \in 1..Len(StreamElements(blockEncoder._input._data)) :
               SegmentInOrder(blockEncoder._output.bytes,
                              StreamElements(blockEncoder._input._data), k,
                              blockEncoder._compress)
         /\ Len(blockEncoder._output.bytes)
                = 5 + UnitHeaderLength(blockEncoder._output.bytes)
                    + GetProp(UnitHeader(blockEncoder._output.bytes),
                              "metadataByteLength").n
                    + PayloadLength(StreamElements(blockEncoder._input._data),
                                    Len(StreamElements(blockEncoder._input._data)),
                                    blockEncoder._compress)

\* a unit of two streams of different lengths, with metadata, was emitted
C22_Witness ==
    /\ call.op = "PixBlockEncoder.run"
    /\ BlockOutputOfInput
    /\ blockEncoder._input = Container("Object", Arr(<<Bytes12, Float1>>), Described)
    /\ Len(StreamInfos(blockEncoder._output.bytes)) = 2
    /\ Len(PayloadSegment(Bytes12, blockEncoder._compress))
           # Len(PayloadSegment(Float1, blockEncoder._compress))

\* C23: archive offsets.  In every archive PixBinEncoder.run produces, the
\* header length of the primer is the byte length of the index, unit k lies
\* at the magic length + 5 + the header length + the sum of the byteLength of
\* the entries before k and is byteLength_k bytes long, and the archive ends
\* with its last unit (no padding); PixBinDecoder.run on the archive hands
\* the block decoder exactly these bytes for unit k.
C23_ArchiveOffsets ==
    /\ (call.op = "PixBinEncoder.run" /\ ArchiveOfInputs)
         => /\ IndexLength(binEncoder._output.bytes)
                   = Len(objectToArrayBuffer(
                             ArchiveIndex(binEncoder._output.bytes, littleEndian),
                             littleEndian).bytes)
            /\ UnitCount(binEncoder._output.bytes, littleEndian)
                   = Len(binEncoder._inputs)
            /\ \A k \in 1..Len(binEncoder._inputs) :
                  /\ UnitLength(binEncoder._output.bytes, littleEndian, k)
                         = Len(UnitBytesOf(binEncoder._inputs[k],
                                           binEncoder._compress))
                  /\ UnitBytes(binEncoder._output.bytes, littleEndian, k)
                         = UnitBytesOf(binEncoder._inputs[k], binEncoder._compress)
            /\ Len(binEncoder._output.bytes)
                   = UnitOffset(binEncoder._output.bytes, littleEndian,
                                Len(binEncoder._inputs) + 1)
    /\ (call.op = "PixBinDecoder.run" /\ ArchiveOfInputs
            /\ binDecoder._input = binEncoder._output /\ ~call.threw)
         => /\ Len(binDecoder._output.blocks) = Len(call.decoded)
            /\ \A n \in 1..Len(call.decoded) :
                  Ret(binDecoder._output.blocks[n])
                      = DecodeBlock(Buf(UnitBytes(binDecoder._input.bytes,
                                                  littleEndian, call.decoded[n])),
                                    littleEndian)

\* the decoder has decoded the second unit of an archive of two units of
\* different lengths
C23_Witness ==
    /\ call.op = "PixBinDecoder.run"
    /\ ~call.threw
    /\ ArchiveOfInputs
    /\ binDecoder._input = binEncoder._output
    /\ call.decoded = <<1, 2>>
    /\ UnitLength(binDecoder._input.bytes, littleEndian, 1)
           # UnitLength(binDecoder._input.bytes, littleEndian, 2)
    /\ UnitOffset(binDecoder._input.bytes, littleEndian, 2)
           = Len(MAGIC_NUMBER) + 5 + IndexLength(binDecoder._input.bytes)
               + UnitLength(binDecoder._input.bytes, littleEndian, 1)

\* a stream info flagged a typed array whose element kind names no typed
\* array: a type that is neither int nor float, or a width no array of the
\* kind has
UnsupportedKind(info) ==
    /\ info.kind = "object"
    /\ GetProp(info, "isTypedArray") = Bool(TRUE)
    /\ ~ \/ /\ GetProp(info, "type") = Str("int")
            /\ GetProp(info, "bytesPerElements") \in {Num(1), Num(2), Num(4)}
         \/ /\ GetProp(info, "type") = Str("float")
            /\ GetProp(info, "bytesPerElements") \in {Num(4), Num(8)}

\* the header of the unit lists its streams
HeaderIntact(bytes) ==
    /\ Len(bytes) >= 5
    /\ UnitHeader(bytes).kind = "object"
    /\ GetProp(UnitHeader(bytes), "byteStreamInfo").kind = "array"

\* C24: unsupported element kind.  PixBlockDecoder.run on a unit of which a
\* stream is flagged a typed array while its element kind is neither int
\* nor float, or has a width no array type has, fails with an error: it
\* does not decode the stream as some other kind of value.
C24_UnsupportedKind ==
    (call.op = "PixBlockDecoder.run" /\ blockDecoder._input # Null
        /\ HeaderIntact(blockDecoder._input.bytes)
        /\ \E k \in 1..Len(StreamInfos(blockDecoder._input.bytes)) :
              UnsupportedKind(StreamInfos(blockDecoder._input.bytes)[k]))
      => call.threw

\* C25: no container on a failed unit decode.  After a PixBlockDecoder.run
\* that failed on its input, getOutput returns null: neither a partially
\* built container nor any other decoded container.
C25_NoContainerOnFailure ==
    [][ (call.op = "PixBlockDecoder.run" /\ call.threw
            /\ call'.op = "PixBlockDecoder.getOutput")
          => call'.returned = Null ]_vars

\* a PixBinEncoder that holds one input
BinEncoderOf(input, compress) ==
    [NewBinEncoder EXCEPT !._inputs = <<input>>, !._compress = compress]

C27_NoStaleUnitOutput ==
    [][ (call.op = "PixBlockEncoder.run"
            /\ (call.threw \/ ~Truthy(blockEncoder._inputCase))
            /\ call'.op = "PixBlockEncoder.getOutput")
          => call'.returned = Null ]_vars

\* C28: index alignment of the decoded units.  In the output of a
\* PixBinDecoder.run, blocks has one element per entry of
\* meta.pixblocksInfo, and blocks[i] is the decoding of the unit entry i
\* describes, with checksum verification enabled or disabled and also when
\* the verification rejects a unit.
C28_IndexAlignment ==
    (call.op = "PixBinDecoder.run" /\ ~RunFailed(call)
        /\ binDecoder._input # Null /\ IndexIntact(binDecoder._input.bytes))
      => /\ binDecoder._output.meta
                = ArchiveIndex(binDecoder._input.bytes, littleEndian)
         /\ Len(binDecoder._output.blocks)
                = Len(GetProp(binDecoder._output.meta, "pixblocksInfo").items)
         /\ \A i \in 1..Len(binDecoder._output.blocks) :
               Ret(binDecoder._output.blocks[i])
                   = DecodeBlock(Buf(UnitBytes(binDecoder._input.bytes,
                                               littleEndian, i)),
                                 littleEndian)

\* the length of a stream on the wire, by its info: the compressed byte
\* length when the stream is compressed, else the byte length of a typed
\* array or the length of a serialisation
OnWireLength(info) ==
    IF Truthy(GetProp(info, "compressedByteLength"))
    THEN GetProp(info, "compressedByteLength").n
    ELSE IF HasProp(info, "byteLength") THEN GetProp(info, "byteLength").n
    ELSE GetProp(info, "length").n

RECURSIVE OnWireLengths(_, _)
\* the sum of the on-wire lengths of streams 1..k
OnWireLengths(infos, k) ==
    IF k = 0 THEN 0 ELSE OnWireLengths(infos, k - 1) + OnWireLength(infos[k])

\* every entry of byteStreamInfo is an object
InfosIntact(bytes) ==
    /\ HeaderIntact(bytes)
    /\ GetProp(UnitHeader(bytes), "metadataByteLength").kind = "number"
    /\ \A k \in 1..Len(StreamInfos(bytes)) : StreamInfos(bytes)[k].kind = "object"

\* the reading offsets of the streams of a unit, as PixBlockDecoder.run
\* computes them
UnitReadingOffsets(bytes) ==
    ReadingOffsets(StreamInfos(bytes), 1,
                   JSPlus(Num(MetadataOffset(bytes)),
                          GetProp(UnitHeader(bytes), "metadataByteLength")))

\* C29: decoder stream offsets.  When PixBlockDecoder.run decodes a unit,
\* the reading offset at which it takes stream k is a number, not negative,
\* equal to 5 + the header length + metadataByteLength + the sum of the
\* on-wire lengths of the streams before k, for units of typed and non-typed
\* streams, compressed or not.
C29_StreamOffsets ==
    (call.op = "PixBlockDecoder.run" /\ ~call.threw
        /\ InfosIntact(blockDecoder._input.bytes))
      => \A k \in 1..Len(StreamInfos(blockDecoder._input.bytes)) :
            /\ UnitReadingOffsets(blockDecoder._input.bytes)[k].kind = "number"
            /\ UnitReadingOffsets(blockDecoder._input.bytes)[k]
                   = Num(StreamsOffset(blockDecoder._input.bytes)
                           + OnWireLengths(StreamInfos(blockDecoder._input.bytes),
                                           k - 1))

\* C30: rejected inputs have no effect on the archive encoder.
\* PixBinEncoder.addInput with an object isGoodCandidate rejects leaves the
\* inputs, the options, the compression flag and the output as they were,
\* and with any other object appends that object to the inputs and changes
\* nothing else; the archive a later run produces has one unit per input,
\* the encoding of that input, in the order of the inputs, and every one of
\* its inputs is an accepted object.
C30_RejectedInputsIgnored ==
    [][ /\ (call'.op = "PixBinEncoder.addInput" /\ Rejected(call'.arg))
             => binEncoder' = binEncoder
        /\ (call'.op = "PixBinEncoder.addInput" /\ ~Rejected(call'.arg))
             => binEncoder' = [binEncoder EXCEPT !._inputs = Append(@, call'.arg)]
        /\ (call'.op = "PixBinEncoder.run" /\ ~call'.threw
                /\ Len(binEncoder._inputs) > 0)
             => /\ binEncoder'._output # Null
                /\ \A k \in 1..Len(binEncoder._inputs) :
                      ~Rejected(binEncoder._inputs[k])
                /\ UnitCount(binEncoder'._output.bytes, littleEndian)
                       = Len(binEncoder._inputs)
                /\ \A k \in 1..Len(binEncoder._inputs) :
                      UnitBytes(binEncoder'._output.bytes, littleEndian, k)
                          = UnitBytesOf(binEncoder._inputs[k], binEncoder._compress)
      ]_vars

\* a rejected object was given to an encoder that holds an input and an
\* archive
C30_Witness ==
    /\ call.op = "PixBinEncoder.addInput"
    /\ call.arg = Null
    /\ Len(binEncoder._inputs) = 1
    /\ binEncoder._output # Null
    /\ ArchiveOfInputs

=============================================================================
